---- MODULE Spec2Model ----
(***************************************************************************)
(* Model of the CodeLearner page: the Page Composer (Index), the editor,  *)
(* the analysis panel (CodeAnalyzer), the debug panel (DebugHelper), the   *)
(* Tutorial Walker (TutorialSystem) and the Exercise Picker                *)
(* (ExerciseGenerator).                                                    *)
(*                                                                         *)
(* A text is a sequence of one-character strings, so that includes, trim,  *)
(* split, toLowerCase and length are computed character by character.      *)
(* All texts of the model are ASCII, where String.length counts            *)
(* characters.                                                             *)
(***************************************************************************)
EXTENDS Naturals, Integers, Sequences, FiniteSets, TLC

----------------------------------------------------------------------------
(* String primitives used by the components *)

\* String.prototype.includes: p occurs in s as a contiguous substring.
Includes(s, p) ==
    \E i \in 0..(Len(s) - Len(p)) : \A j \in 1..Len(p) : s[i + j] = p[j]

\* White space and line terminators removed by String.prototype.trim: the
\* ECMAScript WhiteSpace and LineTerminator productions. Characters that cannot
\* be written inside a TLA+ string are named by their code point.
WhiteSpace ==
    {" ", "\t", "\n", "\r", "\f", "U+000B", "U+00A0", "U+FEFF",
     "U+1680", "U+2000", "U+2001", "U+2002", "U+2003", "U+2004", "U+2005",
     "U+2006", "U+2007", "U+2008", "U+2009", "U+200A", "U+2028", "U+2029",
     "U+202F", "U+205F", "U+3000"}

\* String.prototype.trim: s without its leading and trailing white space.
Trim(s) ==
    IF \A i \in 1..Len(s) : s[i] \in WhiteSpace
    THEN << >>
    ELSE LET first == CHOOSE i \in 1..Len(s) :
                         /\ s[i] \notin WhiteSpace
                         /\ \A j \in 1..(i - 1) : s[j] \in WhiteSpace
             back  == CHOOSE k \in 0..(Len(s) - 1) :
                         /\ s[Len(s) - k] \notin WhiteSpace
                         /\ \A j \in 0..(k - 1) : s[Len(s) - j] \in WhiteSpace
         IN  SubSeq(s, first, Len(s) - back)

\* JavaScript truthiness of a string: the empty string is falsy.
Truthy(s) == Len(s) > 0

\* String.prototype.split("\n"): the lines of s, in order.
RECURSIVE Split(_, _)
Split(s, sep) ==
    IF \A i \in 1..Len(s) : s[i] # sep
    THEN << s >>
    ELSE LET i == CHOOSE k \in 1..Len(s) :
                     s[k] = sep /\ \A j \in 1..(k - 1) : s[j] # sep
         IN  << SubSeq(s, 1, i - 1) >> \o Split(SubSeq(s, i + 1, Len(s)), sep)

\* Array.prototype.some over the lines.
SomeLine(lines, P(_)) == \E k \in 1..Len(lines) : P(lines[k])

\* String.prototype.toLowerCase on ASCII letters.
UpperCase == << "A", "B", "C", "D", "E", "F", "G", "H", "I", "J", "K", "L", "M",
                "N", "O", "P", "Q", "R", "S", "T", "U", "V", "W", "X", "Y", "Z" >>
LowerCase == << "a", "b", "c", "d", "e", "f", "g", "h", "i", "j", "k", "l", "m",
                "n", "o", "p", "q", "r", "s", "t", "u", "v", "w", "x", "y", "z" >>
ToLowerChar(c) ==
    IF \E k \in 1..26 : UpperCase[k] = c
    THEN LowerCase[CHOOSE k \in 1..26 : UpperCase[k] = c]
    ELSE c
ToLowerCase(s) == [i \in 1..Len(s) |-> ToLowerChar(s[i])]

\* n copies of the character c.
Repeat(c, n) == [i \in 1..n |-> c]

----------------------------------------------------------------------------
(* CodeAnalyzer: the rule table and analyzeCode *)

varWarning ==
    [type |-> "warning",
     message |-> "Use \"let\" or \"const\" instead of \"var\" for better scoping",
     severity |-> "medium",
     fix |-> "Replace \"var\" with \"let\" or \"const\""]

consoleLogInfo ==
    [type |-> "info",
     message |-> "Console.log detected - remember to remove in production",
     severity |-> "low",
     fix |-> "Use proper logging library or remove debug statements"]

extractFunctionsSuggestion ==
    [type |-> "suggestion",
     message |-> "Consider breaking this code into functions for better modularity",
     severity |-> "medium",
     fix |-> "Extract reusable logic into separate functions"]

longLineWarning ==
    [type |-> "warning",
     message |-> "Some lines are too long (>120 characters)",
     severity |-> "low",
     fix |-> "Break long lines for better readability"]

functionalArraySuggestion ==
    [type |-> "suggestion",
     message |-> "Consider using map/filter/reduce for functional programming",
     severity |-> "low",
     fix |-> "Use functional array methods when appropriate"]

\* The substrings the rules look for.
PatVar        == << "v", "a", "r", " " >>
PatConsoleLog == << "c", "o", "n", "s", "o", "l", "e", ".", "l", "o", "g" >>
PatFunction   == << "f", "u", "n", "c", "t", "i", "o", "n" >>
PatArrow      == << "=", ">" >>
PatFor        == << "f", "o", "r" >>
PatForEach    == << "f", "o", "r", "E", "a", "c", "h" >>
PatJavascript == "javascript"

MinLengthForExtract == 50
MaxLineLength == 120

\* results.push(x) when the rule's condition holds.
PushIf(results, cond, finding) ==
    IF cond THEN Append(results, finding) ELSE results

\* analyzeCode with the console.log rule as the else-branch of the var rule.
analyzeCodeElseIf(code, language) ==
    LET r1 == PushIf(<< >>, Includes(code, PatVar), varWarning)
        r2 == PushIf(r1, /\ ~Includes(code, PatVar)
                         /\ Includes(code, PatConsoleLog)
                         /\ language = PatJavascript,
                     consoleLogInfo)
        r3 == PushIf(r2, /\ ~Includes(code, PatFunction)
                         /\ ~Includes(code, PatArrow)
                         /\ Len(code) > MinLengthForExtract,
                     extractFunctionsSuggestion)
        r4 == PushIf(r3, LET TooLong(line) == Len(line) > MaxLineLength
                         IN  SomeLine(Split(code, "\n"), TooLong),
                     longLineWarning)
    IN  PushIf(r4, Includes(code, PatFor) /\ Includes(code, PatForEach),
               functionalArraySuggestion)

\* analyzeCode with the var rule applied to javascript only.
analyzeCodeVarJavascriptOnly(code, language) ==
    LET r1 == PushIf(<< >>, Includes(code, PatVar) /\ language = PatJavascript,
                     varWarning)
        r2 == PushIf(r1, Includes(code, PatConsoleLog) /\ language = PatJavascript,
                     consoleLogInfo)
        r3 == PushIf(r2, /\ ~Includes(code, PatFunction)
                         /\ ~Includes(code, PatArrow)
                         /\ Len(code) > MinLengthForExtract,
                     extractFunctionsSuggestion)
        r4 == PushIf(r3, LET TooLong(line) == Len(line) > MaxLineLength
                         IN  SomeLine(Split(code, "\n"), TooLong),
                     longLineWarning)
    IN  PushIf(r4, Includes(code, PatFor) /\ Includes(code, PatForEach),
               functionalArraySuggestion)

\* analyzeCode with code.length >= 50 in the extract-functions rule.
analyzeCodeExtractFromFifty(code, language) ==
    LET r1 == PushIf(<< >>, Includes(code, PatVar), varWarning)
        r2 == PushIf(r1, Includes(code, PatConsoleLog) /\ language = PatJavascript,
                     consoleLogInfo)
        r3 == PushIf(r2, /\ ~Includes(code, PatFunction)
                         /\ ~Includes(code, PatArrow)
                         /\ Len(code) >= MinLengthForExtract,
                     extractFunctionsSuggestion)
        r4 == PushIf(r3, LET TooLong(line) == Len(line) > MaxLineLength
                         IN  SomeLine(Split(code, "\n"), TooLong),
                     longLineWarning)
    IN  PushIf(r4, Includes(code, PatFor) /\ Includes(code, PatForEach),
               functionalArraySuggestion)

\* analyzeCode with the functional-array rule applied to every code with 'for'.
analyzeCodeForLoopAlone(code, language) ==
    LET r1 == PushIf(<< >>, Includes(code, PatVar), varWarning)
        r2 == PushIf(r1, Includes(code, PatConsoleLog) /\ language = PatJavascript,
                     consoleLogInfo)
        r3 == PushIf(r2, /\ ~Includes(code, PatFunction)
                         /\ ~Includes(code, PatArrow)
                         /\ Len(code) > MinLengthForExtract,
                     extractFunctionsSuggestion)
        r4 == PushIf(r3, LET TooLong(line) == Len(line) > MaxLineLength
                         IN  SomeLine(Split(code, "\n"), TooLong),
                     longLineWarning)
    IN  PushIf(r4, Includes(code, PatFor),
               functionalArraySuggestion)

\* analyzeCode with the console.log rule applied to every language.
analyzeCodeAnyLanguage(code, language) ==
    LET r1 == PushIf(<< >>, Includes(code, PatVar), varWarning)
        r2 == PushIf(r1, Includes(code, PatConsoleLog), consoleLogInfo)
        r3 == PushIf(r2, /\ ~Includes(code, PatFunction)
                         /\ ~Includes(code, PatArrow)
                         /\ Len(code) > MinLengthForExtract,
                     extractFunctionsSuggestion)
        r4 == PushIf(r3, LET TooLong(line) == Len(line) > MaxLineLength
                         IN  SomeLine(Split(code, "\n"), TooLong),
                     longLineWarning)
    IN  PushIf(r4, Includes(code, PatFor) /\ Includes(code, PatForEach),
               functionalArraySuggestion)

\* The body of the timer callback of analyzeCode: the findings computed from
\* the captured code and language.
analyzeCode(code, language) ==
    LET r0 == << >>
        r1 == PushIf(r0, Includes(code, PatVar), varWarning)
        r2 == PushIf(r1, Includes(code, PatConsoleLog) /\ language = PatJavascript,
                     consoleLogInfo)
        r3 == PushIf(r2, /\ ~Includes(code, PatFunction)
                         /\ ~Includes(code, PatArrow)
                         /\ Len(code) > MinLengthForExtract,
                     extractFunctionsSuggestion)
        r4 == PushIf(r3, LET TooLong(line) == Len(line) > MaxLineLength
                         IN  SomeLine(Split(code, "\n"), TooLong),
                     longLineWarning)
        r5 == PushIf(r4, Includes(code, PatFor) /\ Includes(code, PatForEach),
                     functionalArraySuggestion)
    IN  r5

----------------------------------------------------------------------------
(* The code texts of the catalogs, character by character *)

\* The character U+0060, which cannot be written inside a TLA+ string; no
\* rule of the page looks for it.
backquote == "U+0060"

codeExamplesJavascript ==
    << "/", "/", " ", "J", "a", "v", "a", "S", "c", "r", "i", "p", "t", " ", "F", "u", "n",
       "d", "a", "m", "e", "n", "t", "a", "l", "s", " ", "-", " ", "I", "n", "t", "e", "r",
       "a", "c", "t", "i", "v", "e", " ", "L", "e", "a", "r", "n", "i", "n", "g", "\n", "f",
       "u", "n", "c", "t", "i", "o", "n", " ", "g", "r", "e", "e", "t", "U", "s", "e", "r",
       "(", "n", "a", "m", "e", ")", " ", "{", "\n", " ", " ", "i", "f", " ", "(", "!", "n",
       "a", "m", "e", ")", " ", "{", "\n", " ", " ", " ", " ", "t", "h", "r", "o", "w", " ",
       "n", "e", "w", " ", "E", "r", "r", "o", "r", "(", "\"", "N", "a", "m", "e", " ", "i",
       "s", " ", "r", "e", "q", "u", "i", "r", "e", "d", "!", "\"", ")", ";", "\n", " ", " ",
       "}", "\n", " ", " ", "r", "e", "t", "u", "r", "n", " ", backquote, "H", "e", "l", "l",
       "o", ",", " ", "$", "{", "n", "a", "m", "e", "}", "!", " ", "W", "e", "l", "c", "o",
       "m", "e", " ", "t", "o", " ", "C", "o", "d", "e", "L", "e", "a", "r", "n", "e", "r",
       " ", "A", "I", ".", backquote, ";", "\n", "}", "\n", "\n", "/", "/", " ", "E", "x", "a",
       "m", "p", "l", "e", " ", "u", "s", "a", "g", "e", " ", "w", "i", "t", "h", " ", "e",
       "r", "r", "o", "r", " ", "h", "a", "n", "d", "l", "i", "n", "g", "\n", "t", "r", "y",
       " ", "{", "\n", " ", " ", "c", "o", "n", "s", "t", " ", "u", "s", "e", "r", "N", "a",
       "m", "e", " ", "=", " ", "\"", "D", "e", "v", "e", "l", "o", "p", "e", "r", "\"", ";",
       "\n", " ", " ", "c", "o", "n", "s", "o", "l", "e", ".", "l", "o", "g", "(", "g", "r",
       "e", "e", "t", "U", "s", "e", "r", "(", "u", "s", "e", "r", "N", "a", "m", "e", ")",
       ")", ";", "\n", " ", " ", "\n", " ", " ", "/", "/", " ", "T", "h", "i", "s", " ", "w",
       "i", "l", "l", " ", "c", "a", "u", "s", "e", " ", "a", "n", " ", "e", "r", "r", "o",
       "r", " ", "-", " ", "t", "r", "y", " ", "i", "t", "!", "\n", " ", " ", "/", "/", " ",
       "c", "o", "n", "s", "o", "l", "e", ".", "l", "o", "g", "(", "g", "r", "e", "e", "t",
       "U", "s", "e", "r", "(", ")", ")", ";", "\n", "}", " ", "c", "a", "t", "c", "h", " ",
       "(", "e", "r", "r", "o", "r", ")", " ", "{", "\n", " ", " ", "c", "o", "n", "s", "o",
       "l", "e", ".", "e", "r", "r", "o", "r", "(", "\"", "E", "r", "r", "o", "r", ":", "\"",
       ",", " ", "e", "r", "r", "o", "r", ".", "m", "e", "s", "s", "a", "g", "e", ")", ";",
       "\n", "}", "\n", "\n", "/", "/", " ", "A", "d", "v", "a", "n", "c", "e", "d", ":", " ",
       "A", "s", "y", "n", "c", " ", "f", "u", "n", "c", "t", "i", "o", "n", " ", "e", "x",
       "a", "m", "p", "l", "e", "\n", "a", "s", "y", "n", "c", " ", "f", "u", "n", "c", "t",
       "i", "o", "n", " ", "f", "e", "t", "c", "h", "U", "s", "e", "r", "D", "a", "t", "a",
       "(", "u", "s", "e", "r", "I", "d", ")", " ", "{", "\n", " ", " ", "c", "o", "n", "s",
       "t", " ", "r", "e", "s", "p", "o", "n", "s", "e", " ", "=", " ", "a", "w", "a", "i",
       "t", " ", "f", "e", "t", "c", "h", "(", backquote, "/", "a", "p", "i", "/", "u", "s",
       "e", "r", "s", "/", "$", "{", "u", "s", "e", "r", "I", "d", "}", backquote, ")", ";",
       "\n", " ", " ", "r", "e", "t", "u", "r", "n", " ", "r", "e", "s", "p", "o", "n", "s",
       "e", ".", "j", "s", "o", "n", "(", ")", ";", "\n", "}" >>

codeExamplesReact ==
    << "/", "/", " ", "R", "e", "a", "c", "t", " ", "C", "o", "m", "p", "o", "n", "e", "n",
       "t", " ", "w", "i", "t", "h", " ", "H", "o", "o", "k", "s", " ", "-", " ", "B", "e",
       "s", "t", " ", "P", "r", "a", "c", "t", "i", "c", "e", "s", "\n", "i", "m", "p", "o",
       "r", "t", " ", "R", "e", "a", "c", "t", ",", " ", "{", " ", "u", "s", "e", "S", "t",
       "a", "t", "e", ",", " ", "u", "s", "e", "E", "f", "f", "e", "c", "t", " ", "}", " ",
       "f", "r", "o", "m", " ", "'", "r", "e", "a", "c", "t", "'", ";", "\n", "\n", "f", "u",
       "n", "c", "t", "i", "o", "n", " ", "U", "s", "e", "r", "P", "r", "o", "f", "i", "l",
       "e", "(", "{", " ", "u", "s", "e", "r", "I", "d", " ", "}", ")", " ", "{", "\n", " ",
       " ", "c", "o", "n", "s", "t", " ", "[", "u", "s", "e", "r", ",", " ", "s", "e", "t",
       "U", "s", "e", "r", "]", " ", "=", " ", "u", "s", "e", "S", "t", "a", "t", "e", "(",
       "n", "u", "l", "l", ")", ";", "\n", " ", " ", "c", "o", "n", "s", "t", " ", "[", "l",
       "o", "a", "d", "i", "n", "g", ",", " ", "s", "e", "t", "L", "o", "a", "d", "i", "n",
       "g", "]", " ", "=", " ", "u", "s", "e", "S", "t", "a", "t", "e", "(", "t", "r", "u",
       "e", ")", ";", "\n", " ", " ", "c", "o", "n", "s", "t", " ", "[", "e", "r", "r", "o",
       "r", ",", " ", "s", "e", "t", "E", "r", "r", "o", "r", "]", " ", "=", " ", "u", "s",
       "e", "S", "t", "a", "t", "e", "(", "n", "u", "l", "l", ")", ";", "\n", "\n", " ", " ",
       "u", "s", "e", "E", "f", "f", "e", "c", "t", "(", "(", ")", " ", "=", ">", " ", "{",
       "\n", " ", " ", " ", " ", "f", "e", "t", "c", "h", "U", "s", "e", "r", "(", ")", ";",
       "\n", " ", " ", "}", ",", " ", "[", "u", "s", "e", "r", "I", "d", "]", ")", ";", "\n",
       "\n", " ", " ", "c", "o", "n", "s", "t", " ", "f", "e", "t", "c", "h", "U", "s", "e",
       "r", " ", "=", " ", "a", "s", "y", "n", "c", " ", "(", ")", " ", "=", ">", " ", "{",
       "\n", " ", " ", " ", " ", "t", "r", "y", " ", "{", "\n", " ", " ", " ", " ", " ", " ",
       "s", "e", "t", "L", "o", "a", "d", "i", "n", "g", "(", "t", "r", "u", "e", ")", ";",
       "\n", " ", " ", " ", " ", " ", " ", "c", "o", "n", "s", "t", " ", "r", "e", "s", "p",
       "o", "n", "s", "e", " ", "=", " ", "a", "w", "a", "i", "t", " ", "f", "e", "t", "c",
       "h", "(", backquote, "/", "a", "p", "i", "/", "u", "s", "e", "r", "s", "/", "$", "{",
       "u", "s", "e", "r", "I", "d", "}", backquote, ")", ";", "\n", " ", " ", " ", " ", " ",
       " ", "\n", " ", " ", " ", " ", " ", " ", "i", "f", " ", "(", "!", "r", "e", "s", "p",
       "o", "n", "s", "e", ".", "o", "k", ")", " ", "{", "\n", " ", " ", " ", " ", " ", " ",
       " ", " ", "t", "h", "r", "o", "w", " ", "n", "e", "w", " ", "E", "r", "r", "o", "r",
       "(", "'", "F", "a", "i", "l", "e", "d", " ", "t", "o", " ", "f", "e", "t", "c", "h",
       " ", "u", "s", "e", "r", "'", ")", ";", "\n", " ", " ", " ", " ", " ", " ", "}", "\n",
       " ", " ", " ", " ", " ", " ", "\n", " ", " ", " ", " ", " ", " ", "c", "o", "n", "s",
       "t", " ", "u", "s", "e", "r", "D", "a", "t", "a", " ", "=", " ", "a", "w", "a", "i",
       "t", " ", "r", "e", "s", "p", "o", "n", "s", "e", ".", "j", "s", "o", "n", "(", ")",
       ";", "\n", " ", " ", " ", " ", " ", " ", "s", "e", "t", "U", "s", "e", "r", "(", "u",
       "s", "e", "r", "D", "a", "t", "a", ")", ";", "\n", " ", " ", " ", " ", "}", " ", "c",
       "a", "t", "c", "h", " ", "(", "e", "r", "r", ")", " ", "{", "\n", " ", " ", " ", " ",
       " ", " ", "s", "e", "t", "E", "r", "r", "o", "r", "(", "e", "r", "r", ".", "m", "e",
       "s", "s", "a", "g", "e", ")", ";", "\n", " ", " ", " ", " ", "}", " ", "f", "i", "n",
       "a", "l", "l", "y", " ", "{", "\n", " ", " ", " ", " ", " ", " ", "s", "e", "t", "L",
       "o", "a", "d", "i", "n", "g", "(", "f", "a", "l", "s", "e", ")", ";", "\n", " ", " ",
       " ", " ", "}", "\n", " ", " ", "}", ";", "\n", "\n", " ", " ", "i", "f", " ", "(", "l",
       "o", "a", "d", "i", "n", "g", ")", " ", "r", "e", "t", "u", "r", "n", " ", "<", "d",
       "i", "v", ">", "L", "o", "a", "d", "i", "n", "g", ".", ".", ".", "<", "/", "d", "i",
       "v", ">", ";", "\n", " ", " ", "i", "f", " ", "(", "e", "r", "r", "o", "r", ")", " ",
       "r", "e", "t", "u", "r", "n", " ", "<", "d", "i", "v", ">", "E", "r", "r", "o", "r",
       ":", " ", "{", "e", "r", "r", "o", "r", "}", "<", "/", "d", "i", "v", ">", ";", "\n",
       " ", " ", "i", "f", " ", "(", "!", "u", "s", "e", "r", ")", " ", "r", "e", "t", "u",
       "r", "n", " ", "<", "d", "i", "v", ">", "N", "o", " ", "u", "s", "e", "r", " ", "f",
       "o", "u", "n", "d", "<", "/", "d", "i", "v", ">", ";", "\n", "\n", " ", " ", "r", "e",
       "t", "u", "r", "n", " ", "(", "\n", " ", " ", " ", " ", "<", "d", "i", "v", " ", "c",
       "l", "a", "s", "s", "N", "a", "m", "e", "=", "\"", "u", "s", "e", "r", "-", "p", "r",
       "o", "f", "i", "l", "e", "\"", ">", "\n", " ", " ", " ", " ", " ", " ", "<", "h", "2",
       ">", "{", "u", "s", "e", "r", ".", "n", "a", "m", "e", "}", "<", "/", "h", "2", ">",
       "\n", " ", " ", " ", " ", " ", " ", "<", "p", ">", "E", "m", "a", "i", "l", ":", " ",
       "{", "u", "s", "e", "r", ".", "e", "m", "a", "i", "l", "}", "<", "/", "p", ">", "\n",
       " ", " ", " ", " ", " ", " ", "<", "p", ">", "R", "o", "l", "e", ":", " ", "{", "u",
       "s", "e", "r", ".", "r", "o", "l", "e", "}", "<", "/", "p", ">", "\n", " ", " ", " ",
       " ", "<", "/", "d", "i", "v", ">", "\n", " ", " ", ")", ";", "\n", "}", "\n", "\n", "e",
       "x", "p", "o", "r", "t", " ", "d", "e", "f", "a", "u", "l", "t", " ", "U", "s", "e",
       "r", "P", "r", "o", "f", "i", "l", "e", ";" >>

codeExamplesPython ==
    << "#", " ", "P", "y", "t", "h", "o", "n", " ", "B", "e", "s", "t", " ", "P", "r", "a",
       "c", "t", "i", "c", "e", "s", " ", "-", " ", "D", "a", "t", "a", " ", "A", "n", "a",
       "l", "y", "s", "i", "s", " ", "E", "x", "a", "m", "p", "l", "e", "\n", "i", "m", "p",
       "o", "r", "t", " ", "p", "a", "n", "d", "a", "s", " ", "a", "s", " ", "p", "d", "\n",
       "i", "m", "p", "o", "r", "t", " ", "n", "u", "m", "p", "y", " ", "a", "s", " ", "n",
       "p", "\n", "f", "r", "o", "m", " ", "t", "y", "p", "i", "n", "g", " ", "i", "m", "p",
       "o", "r", "t", " ", "L", "i", "s", "t", ",", " ", "D", "i", "c", "t", ",", " ", "O",
       "p", "t", "i", "o", "n", "a", "l", "\n", "\n", "d", "e", "f", " ", "a", "n", "a", "l",
       "y", "z", "e", "_", "s", "t", "u", "d", "e", "n", "t", "_", "p", "e", "r", "f", "o",
       "r", "m", "a", "n", "c", "e", "(", "s", "c", "o", "r", "e", "s", ":", " ", "L", "i",
       "s", "t", "[", "D", "i", "c", "t", "[", "s", "t", "r", ",", " ", "f", "l", "o", "a",
       "t", "]", "]", ")", " ", "-", ">", " ", "D", "i", "c", "t", "[", "s", "t", "r", ",",
       " ", "f", "l", "o", "a", "t", "]", ":", "\n", " ", " ", " ", " ", "\"", "\"", "\"",
       "\n", " ", " ", " ", " ", "A", "n", "a", "l", "y", "z", "e", " ", "s", "t", "u", "d",
       "e", "n", "t", " ", "p", "e", "r", "f", "o", "r", "m", "a", "n", "c", "e", " ", "d",
       "a", "t", "a", " ", "a", "n", "d", " ", "r", "e", "t", "u", "r", "n", " ", "s", "t",
       "a", "t", "i", "s", "t", "i", "c", "s", ".", "\n", " ", " ", " ", " ", "\n", " ", " ",
       " ", " ", "A", "r", "g", "s", ":", "\n", " ", " ", " ", " ", " ", " ", " ", " ", "s",
       "c", "o", "r", "e", "s", ":", " ", "L", "i", "s", "t", " ", "o", "f", " ", "d", "i",
       "c", "t", "i", "o", "n", "a", "r", "i", "e", "s", " ", "c", "o", "n", "t", "a", "i",
       "n", "i", "n", "g", " ", "s", "t", "u", "d", "e", "n", "t", " ", "s", "c", "o", "r",
       "e", "s", "\n", " ", " ", " ", " ", " ", " ", " ", " ", "\n", " ", " ", " ", " ", "R",
       "e", "t", "u", "r", "n", "s", ":", "\n", " ", " ", " ", " ", " ", " ", " ", " ", "D",
       "i", "c", "t", "i", "o", "n", "a", "r", "y", " ", "w", "i", "t", "h", " ", "p", "e",
       "r", "f", "o", "r", "m", "a", "n", "c", "e", " ", "s", "t", "a", "t", "i", "s", "t",
       "i", "c", "s", "\n", " ", " ", " ", " ", "\"", "\"", "\"", "\n", " ", " ", " ", " ",
       "i", "f", " ", "n", "o", "t", " ", "s", "c", "o", "r", "e", "s", ":", "\n", " ", " ",
       " ", " ", " ", " ", " ", " ", "r", "a", "i", "s", "e", " ", "V", "a", "l", "u", "e",
       "E", "r", "r", "o", "r", "(", "\"", "S", "c", "o", "r", "e", "s", " ", "l", "i", "s",
       "t", " ", "c", "a", "n", "n", "o", "t", " ", "b", "e", " ", "e", "m", "p", "t", "y",
       "\"", ")", "\n", " ", " ", " ", " ", "\n", " ", " ", " ", " ", "#", " ", "C", "o", "n",
       "v", "e", "r", "t", " ", "t", "o", " ", "D", "a", "t", "a", "F", "r", "a", "m", "e",
       " ", "f", "o", "r", " ", "e", "a", "s", "i", "e", "r", " ", "a", "n", "a", "l", "y",
       "s", "i", "s", "\n", " ", " ", " ", " ", "d", "f", " ", "=", " ", "p", "d", ".", "D",
       "a", "t", "a", "F", "r", "a", "m", "e", "(", "s", "c", "o", "r", "e", "s", ")", "\n",
       " ", " ", " ", " ", "\n", " ", " ", " ", " ", "#", " ", "C", "a", "l", "c", "u", "l",
       "a", "t", "e", " ", "s", "t", "a", "t", "i", "s", "t", "i", "c", "s", "\n", " ", " ",
       " ", " ", "s", "t", "a", "t", "s", " ", "=", " ", "{", "\n", " ", " ", " ", " ", " ",
       " ", " ", " ", "'", "a", "v", "e", "r", "a", "g", "e", "_", "s", "c", "o", "r", "e",
       "'", ":", " ", "d", "f", "[", "'", "s", "c", "o", "r", "e", "'", "]", ".", "m", "e",
       "a", "n", "(", ")", ",", "\n", " ", " ", " ", " ", " ", " ", " ", " ", "'", "m", "e",
       "d", "i", "a", "n", "_", "s", "c", "o", "r", "e", "'", ":", " ", "d", "f", "[", "'",
       "s", "c", "o", "r", "e", "'", "]", ".", "m", "e", "d", "i", "a", "n", "(", ")", ",",
       "\n", " ", " ", " ", " ", " ", " ", " ", " ", "'", "s", "t", "d", "_", "d", "e", "v",
       "i", "a", "t", "i", "o", "n", "'", ":", " ", "d", "f", "[", "'", "s", "c", "o", "r",
       "e", "'", "]", ".", "s", "t", "d", "(", ")", ",", "\n", " ", " ", " ", " ", " ", " ",
       " ", " ", "'", "m", "a", "x", "_", "s", "c", "o", "r", "e", "'", ":", " ", "d", "f",
       "[", "'", "s", "c", "o", "r", "e", "'", "]", ".", "m", "a", "x", "(", ")", ",", "\n",
       " ", " ", " ", " ", " ", " ", " ", " ", "'", "m", "i", "n", "_", "s", "c", "o", "r",
       "e", "'", ":", " ", "d", "f", "[", "'", "s", "c", "o", "r", "e", "'", "]", ".", "m",
       "i", "n", "(", ")", ",", "\n", " ", " ", " ", " ", " ", " ", " ", " ", "'", "p", "a",
       "s", "s", "_", "r", "a", "t", "e", "'", ":", " ", "(", "d", "f", "[", "'", "s", "c",
       "o", "r", "e", "'", "]", " ", ">", "=", " ", "6", "0", ")", ".", "m", "e", "a", "n",
       "(", ")", " ", "*", " ", "1", "0", "0", "\n", " ", " ", " ", " ", "}", "\n", " ", " ",
       " ", " ", "\n", " ", " ", " ", " ", "r", "e", "t", "u", "r", "n", " ", "s", "t", "a",
       "t", "s", "\n", "\n", "#", " ", "E", "x", "a", "m", "p", "l", "e", " ", "u", "s", "a",
       "g", "e", "\n", "s", "t", "u", "d", "e", "n", "t", "_", "s", "c", "o", "r", "e", "s",
       " ", "=", " ", "[", "\n", " ", " ", " ", " ", "{", "'", "n", "a", "m", "e", "'", ":",
       " ", "'", "A", "l", "i", "c", "e", "'", ",", " ", "'", "s", "c", "o", "r", "e", "'",
       ":", " ", "9", "2", ".", "5", "}", ",", "\n", " ", " ", " ", " ", "{", "'", "n", "a",
       "m", "e", "'", ":", " ", "'", "B", "o", "b", "'", ",", " ", "'", "s", "c", "o", "r",
       "e", "'", ":", " ", "7", "8", ".", "0", "}", ",", "\n", " ", " ", " ", " ", "{", "'",
       "n", "a", "m", "e", "'", ":", " ", "'", "C", "h", "a", "r", "l", "i", "e", "'", ",",
       " ", "'", "s", "c", "o", "r", "e", "'", ":", " ", "8", "5", ".", "5", "}", ",", "\n",
       " ", " ", " ", " ", "{", "'", "n", "a", "m", "e", "'", ":", " ", "'", "D", "i", "a",
       "n", "a", "'", ",", " ", "'", "s", "c", "o", "r", "e", "'", ":", " ", "9", "6", ".",
       "0", "}", "\n", "]", "\n", "\n", "t", "r", "y", ":", "\n", " ", " ", " ", " ", "p", "e",
       "r", "f", "o", "r", "m", "a", "n", "c", "e", "_", "s", "t", "a", "t", "s", " ", "=",
       " ", "a", "n", "a", "l", "y", "z", "e", "_", "s", "t", "u", "d", "e", "n", "t", "_",
       "p", "e", "r", "f", "o", "r", "m", "a", "n", "c", "e", "(", "s", "t", "u", "d", "e",
       "n", "t", "_", "s", "c", "o", "r", "e", "s", ")", "\n", " ", " ", " ", " ", "p", "r",
       "i", "n", "t", "(", "f", "\"", "C", "l", "a", "s", "s", " ", "P", "e", "r", "f", "o",
       "r", "m", "a", "n", "c", "e", " ", "A", "n", "a", "l", "y", "s", "i", "s", ":", "\"",
       ")", "\n", " ", " ", " ", " ", "f", "o", "r", " ", "m", "e", "t", "r", "i", "c", ",",
       " ", "v", "a", "l", "u", "e", " ", "i", "n", " ", "p", "e", "r", "f", "o", "r", "m",
       "a", "n", "c", "e", "_", "s", "t", "a", "t", "s", ".", "i", "t", "e", "m", "s", "(",
       ")", ":", "\n", " ", " ", " ", " ", " ", " ", " ", " ", "p", "r", "i", "n", "t", "(",
       "f", "\"", "{", "m", "e", "t", "r", "i", "c", "}", ":", " ", "{", "v", "a", "l", "u",
       "e", ":", ".", "2", "f", "}", "\"", ")", "\n", "e", "x", "c", "e", "p", "t", " ", "V",
       "a", "l", "u", "e", "E", "r", "r", "o", "r", " ", "a", "s", " ", "e", ":", "\n", " ",
       " ", " ", " ", "p", "r", "i", "n", "t", "(", "f", "\"", "E", "r", "r", "o", "r", ":",
       " ", "{", "e", "}", "\"", ")" >>

jsBasicsStep1Code ==
    << "/", "/", " ", "D", "i", "f", "f", "e", "r", "e", "n", "t", " ", "w", "a", "y", "s",
       " ", "t", "o", " ", "d", "e", "c", "l", "a", "r", "e", " ", "v", "a", "r", "i", "a",
       "b", "l", "e", "s", "\n", "l", "e", "t", " ", "n", "a", "m", "e", " ", "=", " ", "\"",
       "J", "o", "h", "n", "\"", ";", " ", " ", " ", " ", " ", " ", " ", " ", "/", "/", " ",
       "S", "t", "r", "i", "n", "g", "\n", "c", "o", "n", "s", "t", " ", "a", "g", "e", " ",
       "=", " ", "2", "5", ";", " ", " ", " ", " ", " ", " ", " ", " ", " ", " ", "/", "/",
       " ", "N", "u", "m", "b", "e", "r", "\n", "l", "e", "t", " ", "i", "s", "S", "t", "u",
       "d", "e", "n", "t", " ", "=", " ", "t", "r", "u", "e", ";", " ", " ", " ", " ", "/",
       "/", " ", "B", "o", "o", "l", "e", "a", "n", "\n", "l", "e", "t", " ", "h", "o", "b",
       "b", "i", "e", "s", " ", "=", " ", "[", "\"", "c", "o", "d", "i", "n", "g", "\"", ",",
       " ", "\"", "r", "e", "a", "d", "i", "n", "g", "\"", "]", ";", " ", "/", "/", " ", "A",
       "r", "r", "a", "y", "\n", "l", "e", "t", " ", "p", "e", "r", "s", "o", "n", " ", "=",
       " ", "{", " ", "n", "a", "m", "e", ":", " ", "\"", "A", "l", "i", "c", "e", "\"", ",",
       " ", "a", "g", "e", ":", " ", "3", "0", " ", "}", ";", " ", "/", "/", " ", "O", "b",
       "j", "e", "c", "t" >>

jsBasicsStep2Code ==
    << "/", "/", " ", "F", "u", "n", "c", "t", "i", "o", "n", " ", "d", "e", "c", "l", "a",
       "r", "a", "t", "i", "o", "n", "\n", "f", "u", "n", "c", "t", "i", "o", "n", " ", "g",
       "r", "e", "e", "t", "(", "n", "a", "m", "e", ")", " ", "{", "\n", " ", " ", "r", "e",
       "t", "u", "r", "n", " ", "\"", "H", "e", "l", "l", "o", ",", " ", "\"", " ", "+", " ",
       "n", "a", "m", "e", " ", "+", " ", "\"", "!", "\"", ";", "\n", "}", "\n", "\n", "/",
       "/", " ", "A", "r", "r", "o", "w", " ", "f", "u", "n", "c", "t", "i", "o", "n", " ",
       "(", "E", "S", "6", "+", ")", "\n", "c", "o", "n", "s", "t", " ", "g", "r", "e", "e",
       "t", "A", "r", "r", "o", "w", " ", "=", " ", "(", "n", "a", "m", "e", ")", " ", "=",
       ">", " ", "{", "\n", " ", " ", "r", "e", "t", "u", "r", "n", " ", backquote, "H", "e",
       "l", "l", "o", ",", " ", "$", "{", "n", "a", "m", "e", "}", "!", backquote, ";", "\n",
       "}", ";", "\n", "\n", "/", "/", " ", "S", "h", "o", "r", "t", " ", "a", "r", "r", "o",
       "w", " ", "f", "u", "n", "c", "t", "i", "o", "n", "\n", "c", "o", "n", "s", "t", " ",
       "g", "r", "e", "e", "t", "S", "h", "o", "r", "t", " ", "=", " ", "n", "a", "m", "e",
       " ", "=", ">", " ", backquote, "H", "e", "l", "l", "o", ",", " ", "$", "{", "n", "a",
       "m", "e", "}", "!", backquote, ";", "\n", "\n", "/", "/", " ", "U", "s", "i", "n", "g",
       " ", "t", "h", "e", " ", "f", "u", "n", "c", "t", "i", "o", "n", "s", "\n", "c", "o",
       "n", "s", "o", "l", "e", ".", "l", "o", "g", "(", "g", "r", "e", "e", "t", "(", "\"",
       "A", "l", "i", "c", "e", "\"", ")", ")", ";", "\n", "c", "o", "n", "s", "o", "l", "e",
       ".", "l", "o", "g", "(", "g", "r", "e", "e", "t", "A", "r", "r", "o", "w", "(", "\"",
       "B", "o", "b", "\"", ")", ")", ";" >>

jsBasicsStep3Code ==
    << "/", "/", " ", "I", "f", "-", "e", "l", "s", "e", " ", "s", "t", "a", "t", "e", "m",
       "e", "n", "t", "s", "\n", "l", "e", "t", " ", "s", "c", "o", "r", "e", " ", "=", " ",
       "8", "5", ";", "\n", "i", "f", " ", "(", "s", "c", "o", "r", "e", " ", ">", "=", " ",
       "9", "0", ")", " ", "{", "\n", " ", " ", "c", "o", "n", "s", "o", "l", "e", ".", "l",
       "o", "g", "(", "\"", "E", "x", "c", "e", "l", "l", "e", "n", "t", "!", "\"", ")", ";",
       "\n", "}", " ", "e", "l", "s", "e", " ", "i", "f", " ", "(", "s", "c", "o", "r", "e",
       " ", ">", "=", " ", "7", "0", ")", " ", "{", "\n", " ", " ", "c", "o", "n", "s", "o",
       "l", "e", ".", "l", "o", "g", "(", "\"", "G", "o", "o", "d", " ", "j", "o", "b", "!",
       "\"", ")", ";", "\n", "}", " ", "e", "l", "s", "e", " ", "{", "\n", " ", " ", "c", "o",
       "n", "s", "o", "l", "e", ".", "l", "o", "g", "(", "\"", "K", "e", "e", "p", " ", "p",
       "r", "a", "c", "t", "i", "c", "i", "n", "g", "!", "\"", ")", ";", "\n", "}", "\n", "\n",
       "/", "/", " ", "F", "o", "r", " ", "l", "o", "o", "p", "\n", "f", "o", "r", " ", "(",
       "l", "e", "t", " ", "i", " ", "=", " ", "0", ";", " ", "i", " ", "<", " ", "5", ";",
       " ", "i", "+", "+", ")", " ", "{", "\n", " ", " ", "c", "o", "n", "s", "o", "l", "e",
       ".", "l", "o", "g", "(", "\"", "C", "o", "u", "n", "t", ":", " ", "\"", " ", "+", " ",
       "i", ")", ";", "\n", "}", "\n", "\n", "/", "/", " ", "A", "r", "r", "a", "y", " ", "i",
       "t", "e", "r", "a", "t", "i", "o", "n", "\n", "c", "o", "n", "s", "t", " ", "f", "r",
       "u", "i", "t", "s", " ", "=", " ", "[", "\"", "a", "p", "p", "l", "e", "\"", ",", " ",
       "\"", "b", "a", "n", "a", "n", "a", "\"", ",", " ", "\"", "o", "r", "a", "n", "g", "e",
       "\"", "]", ";", "\n", "f", "r", "u", "i", "t", "s", ".", "f", "o", "r", "E", "a", "c",
       "h", "(", "f", "r", "u", "i", "t", " ", "=", ">", " ", "{", "\n", " ", " ", "c", "o",
       "n", "s", "o", "l", "e", ".", "l", "o", "g", "(", "\"", "I", " ", "l", "i", "k", "e",
       " ", "\"", " ", "+", " ", "f", "r", "u", "i", "t", ")", ";", "\n", "}", ")", ";" >>

reactIntroStep1Code ==
    << "i", "m", "p", "o", "r", "t", " ", "R", "e", "a", "c", "t", " ", "f", "r", "o", "m",
       " ", "'", "r", "e", "a", "c", "t", "'", ";", "\n", "\n", "/", "/", " ", "F", "u", "n",
       "c", "t", "i", "o", "n", "a", "l", " ", "c", "o", "m", "p", "o", "n", "e", "n", "t",
       "\n", "f", "u", "n", "c", "t", "i", "o", "n", " ", "W", "e", "l", "c", "o", "m", "e",
       "(", "p", "r", "o", "p", "s", ")", " ", "{", "\n", " ", " ", "r", "e", "t", "u", "r",
       "n", " ", "<", "h", "1", ">", "H", "e", "l", "l", "o", ",", " ", "{", "p", "r", "o",
       "p", "s", ".", "n", "a", "m", "e", "}", "!", "<", "/", "h", "1", ">", ";", "\n", "}",
       "\n", "\n", "/", "/", " ", "A", "r", "r", "o", "w", " ", "f", "u", "n", "c", "t", "i",
       "o", "n", " ", "c", "o", "m", "p", "o", "n", "e", "n", "t", "\n", "c", "o", "n", "s",
       "t", " ", "W", "e", "l", "c", "o", "m", "e", "A", "r", "r", "o", "w", " ", "=", " ",
       "(", "{", " ", "n", "a", "m", "e", " ", "}", ")", " ", "=", ">", " ", "{", "\n", " ",
       " ", "r", "e", "t", "u", "r", "n", " ", "<", "h", "1", ">", "H", "e", "l", "l", "o",
       ",", " ", "{", "n", "a", "m", "e", "}", "!", "<", "/", "h", "1", ">", ";", "\n", "}",
       ";", "\n", "\n", "/", "/", " ", "U", "s", "i", "n", "g", " ", "t", "h", "e", " ", "c",
       "o", "m", "p", "o", "n", "e", "n", "t", "\n", "f", "u", "n", "c", "t", "i", "o", "n",
       " ", "A", "p", "p", "(", ")", " ", "{", "\n", " ", " ", "r", "e", "t", "u", "r", "n",
       " ", "(", "\n", " ", " ", " ", " ", "<", "d", "i", "v", ">", "\n", " ", " ", " ", " ",
       " ", " ", "<", "W", "e", "l", "c", "o", "m", "e", " ", "n", "a", "m", "e", "=", "\"",
       "A", "l", "i", "c", "e", "\"", " ", "/", ">", "\n", " ", " ", " ", " ", " ", " ", "<",
       "W", "e", "l", "c", "o", "m", "e", "A", "r", "r", "o", "w", " ", "n", "a", "m", "e",
       "=", "\"", "B", "o", "b", "\"", " ", "/", ">", "\n", " ", " ", " ", " ", "<", "/", "d",
       "i", "v", ">", "\n", " ", " ", ")", ";", "\n", "}" >>

reactIntroStep2Code ==
    << "i", "m", "p", "o", "r", "t", " ", "R", "e", "a", "c", "t", ",", " ", "{", " ", "u",
       "s", "e", "S", "t", "a", "t", "e", " ", "}", " ", "f", "r", "o", "m", " ", "'", "r",
       "e", "a", "c", "t", "'", ";", "\n", "\n", "f", "u", "n", "c", "t", "i", "o", "n", " ",
       "C", "o", "u", "n", "t", "e", "r", "(", ")", " ", "{", "\n", " ", " ", "c", "o", "n",
       "s", "t", " ", "[", "c", "o", "u", "n", "t", ",", " ", "s", "e", "t", "C", "o", "u",
       "n", "t", "]", " ", "=", " ", "u", "s", "e", "S", "t", "a", "t", "e", "(", "0", ")",
       ";", "\n", " ", " ", "c", "o", "n", "s", "t", " ", "[", "n", "a", "m", "e", ",", " ",
       "s", "e", "t", "N", "a", "m", "e", "]", " ", "=", " ", "u", "s", "e", "S", "t", "a",
       "t", "e", "(", "'", "'", ")", ";", "\n", "\n", " ", " ", "r", "e", "t", "u", "r", "n",
       " ", "(", "\n", " ", " ", " ", " ", "<", "d", "i", "v", ">", "\n", " ", " ", " ", " ",
       " ", " ", "<", "h", "2", ">", "C", "o", "u", "n", "t", ":", " ", "{", "c", "o", "u",
       "n", "t", "}", "<", "/", "h", "2", ">", "\n", " ", " ", " ", " ", " ", " ", "<", "b",
       "u", "t", "t", "o", "n", " ", "o", "n", "C", "l", "i", "c", "k", "=", "{", "(", ")",
       " ", "=", ">", " ", "s", "e", "t", "C", "o", "u", "n", "t", "(", "c", "o", "u", "n",
       "t", " ", "+", " ", "1", ")", "}", ">", "\n", " ", " ", " ", " ", " ", " ", " ", " ",
       "I", "n", "c", "r", "e", "m", "e", "n", "t", "\n", " ", " ", " ", " ", " ", " ", "<",
       "/", "b", "u", "t", "t", "o", "n", ">", "\n", " ", " ", " ", " ", " ", " ", "<", "b",
       "u", "t", "t", "o", "n", " ", "o", "n", "C", "l", "i", "c", "k", "=", "{", "(", ")",
       " ", "=", ">", " ", "s", "e", "t", "C", "o", "u", "n", "t", "(", "c", "o", "u", "n",
       "t", " ", "-", " ", "1", ")", "}", ">", "\n", " ", " ", " ", " ", " ", " ", " ", " ",
       "D", "e", "c", "r", "e", "m", "e", "n", "t", "\n", " ", " ", " ", " ", " ", " ", "<",
       "/", "b", "u", "t", "t", "o", "n", ">", "\n", " ", " ", " ", " ", " ", " ", "\n", " ",
       " ", " ", " ", " ", " ", "<", "i", "n", "p", "u", "t", " ", "\n", " ", " ", " ", " ",
       " ", " ", " ", " ", "t", "y", "p", "e", "=", "\"", "t", "e", "x", "t", "\"", "\n", " ",
       " ", " ", " ", " ", " ", " ", " ", "v", "a", "l", "u", "e", "=", "{", "n", "a", "m",
       "e", "}", "\n", " ", " ", " ", " ", " ", " ", " ", " ", "o", "n", "C", "h", "a", "n",
       "g", "e", "=", "{", "(", "e", ")", " ", "=", ">", " ", "s", "e", "t", "N", "a", "m",
       "e", "(", "e", ".", "t", "a", "r", "g", "e", "t", ".", "v", "a", "l", "u", "e", ")",
       "}", "\n", " ", " ", " ", " ", " ", " ", " ", " ", "p", "l", "a", "c", "e", "h", "o",
       "l", "d", "e", "r", "=", "\"", "E", "n", "t", "e", "r", " ", "y", "o", "u", "r", " ",
       "n", "a", "m", "e", "\"", "\n", " ", " ", " ", " ", " ", " ", "/", ">", "\n", " ", " ",
       " ", " ", " ", " ", "<", "p", ">", "H", "e", "l", "l", "o", ",", " ", "{", "n", "a",
       "m", "e", "}", "!", "<", "/", "p", ">", "\n", " ", " ", " ", " ", "<", "/", "d", "i",
       "v", ">", "\n", " ", " ", ")", ";", "\n", "}" >>

exercise1StarterCode ==
    << "f", "u", "n", "c", "t", "i", "o", "n", " ", "s", "u", "m", "A", "r", "r", "a", "y",
       "(", "n", "u", "m", "b", "e", "r", "s", ")", " ", "{", "\n", " ", " ", "/", "/", " ",
       "Y", "o", "u", "r", " ", "c", "o", "d", "e", " ", "h", "e", "r", "e", "\n", " ", " ",
       "\n", "}", "\n", "\n", "/", "/", " ", "T", "e", "s", "t", " ", "y", "o", "u", "r", " ",
       "f", "u", "n", "c", "t", "i", "o", "n", "\n", "c", "o", "n", "s", "o", "l", "e", ".",
       "l", "o", "g", "(", "s", "u", "m", "A", "r", "r", "a", "y", "(", "[", "1", ",", " ",
       "2", ",", " ", "3", ",", " ", "4", ",", " ", "5", "]", ")", ")", ";", " ", "/", "/",
       " ", "S", "h", "o", "u", "l", "d", " ", "r", "e", "t", "u", "r", "n", " ", "1", "5" >>

exercise2StarterCode ==
    << "f", "u", "n", "c", "t", "i", "o", "n", " ", "r", "e", "v", "e", "r", "s", "e", "S",
       "t", "r", "i", "n", "g", "(", "s", "t", "r", ")", " ", "{", "\n", " ", " ", "/", "/",
       " ", "Y", "o", "u", "r", " ", "c", "o", "d", "e", " ", "h", "e", "r", "e", " ", "-",
       " ", "d", "o", "n", "'", "t", " ", "u", "s", "e", " ", ".", "r", "e", "v", "e", "r",
       "s", "e", "(", ")", "\n", " ", " ", "\n", "}", "\n", "\n", "/", "/", " ", "T", "e", "s",
       "t", " ", "y", "o", "u", "r", " ", "f", "u", "n", "c", "t", "i", "o", "n", "\n", "c",
       "o", "n", "s", "o", "l", "e", ".", "l", "o", "g", "(", "r", "e", "v", "e", "r", "s",
       "e", "S", "t", "r", "i", "n", "g", "(", "\"", "h", "e", "l", "l", "o", "\"", ")", ")",
       ";", " ", "/", "/", " ", "S", "h", "o", "u", "l", "d", " ", "r", "e", "t", "u", "r",
       "n", " ", "\"", "o", "l", "l", "e", "h", "\"" >>

exercise3StarterCode ==
    << "f", "u", "n", "c", "t", "i", "o", "n", " ", "f", "i", "b", "o", "n", "a", "c", "c",
       "i", "(", "n", ")", " ", "{", "\n", " ", " ", "/", "/", " ", "Y", "o", "u", "r", " ",
       "c", "o", "d", "e", " ", "h", "e", "r", "e", "\n", " ", " ", "\n", "}", "\n", "\n", "/",
       "/", " ", "T", "e", "s", "t", " ", "y", "o", "u", "r", " ", "f", "u", "n", "c", "t",
       "i", "o", "n", "\n", "c", "o", "n", "s", "o", "l", "e", ".", "l", "o", "g", "(", "f",
       "i", "b", "o", "n", "a", "c", "c", "i", "(", "7", ")", ")", ";", " ", "/", "/", " ",
       "S", "h", "o", "u", "l", "d", " ", "r", "e", "t", "u", "r", "n", " ", "[", "0", ",",
       " ", "1", ",", " ", "1", ",", " ", "2", ",", " ", "3", ",", " ", "5", ",", " ", "8",
       "]" >>
----------------------------------------------------------------------------
(* Texts of the page                                                       *)
(* The state holds a text by its name; Chars gives its characters.  Each   *)
(* name stands for a different string, so two texts are equal exactly when *)
(* their names are.                                                        *)

\* Texts the user types into the editor.
typedBlank  == << " ", "U+000B", "\n" >>
typedVarLog == << "v", "a", "r", " ", "x", " ", "=", " ", "1", ";", "\n",
                  "c", "o", "n", "s", "o", "l", "e", ".", "l", "o", "g", "(", "x", ")", ";" >>

\* Problem descriptions the user types into the debug panel.
typedDescBlank == << "U+00A0", "\t", "U+000B" >>
typedDescCrash == << "i", "t", " ", "c", "r", "a", "s", "h", "e", "s" >>
typedDescNull  == << "N", "U", "L", "L", " ", "r", "e", "f" >>

Chars(text) ==
    CASE text = ""                             -> << >>
      [] text = "codeExamples.javascript"      -> codeExamplesJavascript
      [] text = "codeExamples.react"           -> codeExamplesReact
      [] text = "codeExamples.python"          -> codeExamplesPython
      [] text = "js-basics.steps[0].code"      -> jsBasicsStep1Code
      [] text = "js-basics.steps[1].code"      -> jsBasicsStep2Code
      [] text = "js-basics.steps[2].code"      -> jsBasicsStep3Code
      [] text = "react-intro.steps[0].code"    -> reactIntroStep1Code
      [] text = "react-intro.steps[1].code"    -> reactIntroStep2Code
      [] text = "exercises[0].starterCode"     -> exercise1StarterCode
      [] text = "exercises[1].starterCode"     -> exercise2StarterCode
      [] text = "exercises[2].starterCode"     -> exercise3StarterCode
      [] text = "typed: blank"                 -> typedBlank
      [] text = "typed: var and console.log"   -> typedVarLog
      [] text = "typed: blank description"     -> typedDescBlank
      [] text = "typed: it crashes"            -> typedDescCrash
      [] text = "typed: NULL ref"              -> typedDescNull

----------------------------------------------------------------------------
(* Static catalogs *)

\* TopicSelector: the identifiers of the topics, in display order.
topics == << "javascript", "react", "python", "database", "mobile", "backend" >>
TopicIds == {topics[i] : i \in 1..Len(topics)}

\* A lookup that falls back to the JavaScript example instead of ''.
codeExampleOfOrJavascript(topicId) ==
    CASE topicId = "react"  -> "codeExamples.react"
      [] topicId = "python" -> "codeExamples.python"
      [] OTHER              -> "codeExamples.javascript"

\* Index: codeExamples[topicId] || ''.
codeExampleOf(topicId) ==
    CASE topicId = "javascript" -> "codeExamples.javascript"
      [] topicId = "react"      -> "codeExamples.react"
      [] topicId = "python"     -> "codeExamples.python"
      [] OTHER                  -> ""

\* TutorialSystem: the tutorials with the identifier and code of each step.
tutorials ==
    << [id |-> "js-basics",
        steps |-> << [id |-> "1", code |-> "js-basics.steps[0].code"],
                     [id |-> "2", code |-> "js-basics.steps[1].code"],
                     [id |-> "3", code |-> "js-basics.steps[2].code"] >>],
       [id |-> "react-intro",
        steps |-> << [id |-> "1", code |-> "react-intro.steps[0].code"],
                     [id |-> "2", code |-> "react-intro.steps[1].code"] >>] >>

\* ExerciseGenerator: the exercises with identifier, points and starter code.
exercises ==
    << [id |-> "1", points |-> 10, starterCode |-> "exercises[0].starterCode"],
       [id |-> "2", points |-> 20, starterCode |-> "exercises[1].starterCode"],
       [id |-> "3", points |-> 30, starterCode |-> "exercises[2].starterCode"] >>

\* DebugHelper: the identifiers and types of the catalog entries, in order.
commonIssues ==
    << [id |-> "1", type |-> "error",   title |-> "Undefined Variable"],
       [id |-> "2", type |-> "error",   title |-> "Cannot read property of undefined"],
       [id |-> "3", type |-> "warning", title |-> "Infinite Loop"],
       [id |-> "4", type |-> "tip",     title |-> "Array Index Out of Bounds"] >>

----------------------------------------------------------------------------
(* DebugHelper: the filter of analyzeError *)

PatUndefined == << "u", "n", "d", "e", "f", "i", "n", "e", "d" >>
PatNull      == << "n", "u", "l", "l" >>
PatLoop      == << "l", "o", "o", "p" >>
PatProperty  == << "p", "r", "o", "p", "e", "r", "t", "y" >>
PatWhile     == << "w", "h", "i", "l", "e" >>

\* A filter callback that keeps only the entries of type error.
IssueIsRelevantForErrorsOnly(issue, errorDesc, code) ==
    LET keywords == ToLowerCase(errorDesc)
    IN  /\ issue.type = "error"
        /\ \/ Includes(keywords, PatUndefined)
           \/ Includes(keywords, PatNull)
           \/ Includes(keywords, PatLoop)
           \/ Includes(keywords, PatProperty)
           \/ Includes(code, PatUndefined)
           \/ Includes(code, PatWhile)
           \/ Includes(code, PatFor)

\* The callback given to commonIssues.filter.
IssueIsRelevant(issue, errorDesc, code) ==
    LET keywords == ToLowerCase(errorDesc)
    IN  \/ Includes(keywords, PatUndefined)
        \/ Includes(keywords, PatNull)
        \/ Includes(keywords, PatLoop)
        \/ Includes(keywords, PatProperty)
        \/ Includes(code, PatUndefined)
        \/ Includes(code, PatWhile)
        \/ Includes(code, PatFor)

\* commonIssues.filter(...)
relevantSuggestions(errorDesc, code) ==
    LET Keep(issue) == IssueIsRelevant(issue, errorDesc, code)
    IN  SelectSeq(commonIssues, Keep)

\* setSuggestions(relevantSuggestions), without the fallback.
suggestionsForWithoutFallback(errorDesc, code) == relevantSuggestions(errorDesc, code)

\* relevantSuggestions.length > 0 ? relevantSuggestions : commonIssues
suggestionsFor(errorDesc, code) ==
    LET relevant == relevantSuggestions(errorDesc, code)
    IN  IF Len(relevant) > 0 THEN relevant ELSE commonIssues

\* disabled={!errorDescription.trim()}, without the test of isAnalyzing.
analyzeErrorDisabledOnBlankOnly(analyzing, errorDesc) == ~Truthy(Trim(errorDesc))

\* disabled={isAnalyzing}, without the test of the description.
analyzeErrorDisabledWhileAnalyzingOnly(analyzing, errorDesc) == analyzing

\* The disabled attribute of the "Get Debug Suggestions" button.
analyzeErrorDisabled(analyzing, errorDesc) ==
    analyzing \/ ~Truthy(Trim(errorDesc))

----------------------------------------------------------------------------
(* Bounds and inputs *)

\* Most timers of one panel that may be waiting at once.
MaxPending == 2

\* Most events of a session of the whole page.
MaxEvents == 5

\* Longest run of one repeated character among the texts given to a direct
\* call of analyzeCode.
MaxRun == 122

\* Texts the user types into the editor, and problem descriptions the user types
\* into the debug panel.
EditTexts == {"", "typed: blank", "typed: var and console.log"}
Descriptions == {"", "typed: blank description", "typed: it crashes", "typed: NULL ref"}

TabIds == {"editor", "analysis", "debug", "ai"}
ResourceTabIds == {"tutorials", "exercises"}

----------------------------------------------------------------------------
(* State *)

VARIABLES
    \* Index (Page Composer)
    selectedTopic, currentCode, activeTab,
    \* the value of the uncontrolled Tabs holding the tutorials and exercises
    resourceTab,
    \* CodeEditor (mounted while activeTab = "editor")
    editorCode,
    \* CodeAnalyzer (mounted while activeTab = "analysis")
    analysis, isAnalyzing, analysisTimers,
    \* history of CodeAnalyzer: the code and language captured by the run that
    \* delivered the displayed analysis, << >> when no run delivered it
    analysisInput,
    \* history of CodeAnalyzer: the code and language of the most recent run
    \* started by the mounted instance, << >> when it started none
    analysisStarted,
    \* DebugHelper (mounted while activeTab = "debug")
    errorDescription, suggestions, debugIsAnalyzing, debugTimers,
    \* TutorialSystem (mounted while resourceTab = "tutorials")
    selectedTutorial, currentStep, completedSteps,
    \* ExerciseGenerator (mounted while resourceTab = "exercises")
    currentExercise, completedExercises, showSolution,
    \* a direct call of analyzeCode's callback: arguments, and result once returned
    callArgs, callReturned, callResult,
    \* the number of events (user actions and timer callbacks) of the session so far
    events

indexVars    == << selectedTopic, currentCode, activeTab >>
editorVars   == << editorCode >>
analyzerVars == << analysis, isAnalyzing, analysisTimers, analysisInput, analysisStarted >>
debugVars    == << errorDescription, suggestions, debugIsAnalyzing, debugTimers >>
tutorialVars == << selectedTutorial, currentStep, completedSteps >>
exerciseVars == << currentExercise, completedExercises, showSolution >>
callVars     == << callArgs, callReturned, callResult >>
leftVars     == << indexVars, editorVars, analyzerVars, debugVars >>
vars == << indexVars, resourceTab, editorVars, analyzerVars, debugVars,
           tutorialVars, exerciseVars, callVars, events >>

\* selectedTutorial and currentExercise hold the position of the entry in its
\* catalog, and NoSelection for null.
NoSelection == 0

----------------------------------------------------------------------------
(* Timers *)

\* setTimeout preceded by a clearTimeout of the timers already waiting.
SetTimeoutCancellingEarlier(timers, captured) ==
    << [captured |-> captured, live |-> TRUE] >>

\* A setTimeout whose callbacks fire in the reverse order of their start.
SetTimeoutFiringLastFirst(timers, captured) ==
    << [captured |-> captured, live |-> TRUE] >> \o timers

\* setTimeout: the callback joins the queue of its delay, with the values its
\* closure captured; live tells that the component instance that started it
\* is still mounted.
SetTimeout(timers, captured) == Append(timers, [captured |-> captured, live |-> TRUE])

\* Unmounting a component cancels nothing: its timers stay queued and fire, but
\* the state updates of their callbacks address an instance that no longer
\* exists and are dropped, so what they captured is forgotten here.
Orphan(timers) == [i \in 1..Len(timers) |-> [captured |-> << >>, live |-> FALSE]]

----------------------------------------------------------------------------
(* Rendering of the Index page after a state update.                       *)
(* A TabsContent renders its children only while its value is the active   *)
(* tab, so a panel is mounted (with fresh state) when its tab becomes       *)
(* active and unmounted when another tab becomes active.                    *)

\* <CodeEditor initialCode={currentCode}>: useState(initialCode) reads the
\* prop only when the editor mounts.
RenderEditor ==
    editorCode' = IF activeTab' # "editor" THEN ""
                  ELSE IF activeTab = "editor" THEN editorCode
                  ELSE currentCode'

\* <CodeAnalyzer code={currentCode} language={selectedTopic}>, with its
\* effect on [code, language]: if (code.trim()) analyzeCode().
RenderAnalyzer ==
    LET mounts   == activeTab' = "analysis" /\ activeTab # "analysis"
        stays    == activeTab' = "analysis" /\ activeTab = "analysis"
        changed  == currentCode' # currentCode \/ selectedTopic' # selectedTopic
        runs     == (mounts \/ (stays /\ changed)) /\ Truthy(Trim(Chars(currentCode')))
    IN  /\ analysis' = IF stays THEN analysis ELSE << >>
        /\ analysisInput' = IF stays THEN analysisInput ELSE << >>
        /\ analysisStarted' = IF runs THEN [code |-> currentCode', language |-> selectedTopic']
                              ELSE IF stays THEN analysisStarted ELSE << >>
        /\ isAnalyzing' = IF runs THEN TRUE
                          ELSE IF stays THEN isAnalyzing ELSE FALSE
        /\ analysisTimers' =
              IF runs
              THEN SetTimeout(IF mounts THEN Orphan(analysisTimers) ELSE analysisTimers,
                              [code |-> currentCode', language |-> selectedTopic'])
              ELSE IF stays THEN analysisTimers ELSE Orphan(analysisTimers)
        /\ Len(analysisTimers') <= MaxPending

\* <DebugHelper code={currentCode}>
RenderDebug ==
    LET stays == activeTab' = "debug" /\ activeTab = "debug"
    IN  /\ errorDescription' = IF stays THEN errorDescription ELSE ""
        /\ suggestions' = IF stays THEN suggestions ELSE << >>
        /\ debugIsAnalyzing' = IF stays THEN debugIsAnalyzing ELSE FALSE
        /\ debugTimers' = IF stays THEN debugTimers ELSE Orphan(debugTimers)

\* The Index state after the setters of one handler, and the render it causes.
Render(topic, code, tab) ==
    /\ selectedTopic' = topic
    /\ currentCode' = code
    /\ activeTab' = tab
    /\ RenderEditor
    /\ RenderAnalyzer
    /\ RenderDebug

----------------------------------------------------------------------------
(* Index handlers *)

handleTopicSelect(topicId) ==
    /\ Render(topicId, codeExampleOf(topicId), activeTab)
    /\ UNCHANGED << resourceTab, tutorialVars, exerciseVars, callVars >>

\* A change of tab that also reloads the example of the selected topic.
setActiveTabReloadingExample(tab) ==
    /\ tab # activeTab
    /\ Render(selectedTopic, codeExampleOf(selectedTopic), tab)
    /\ UNCHANGED << resourceTab, tutorialVars, exerciseVars, callVars >>

\* Tabs onValueChange={setActiveTab}: the user activates another tab.
setActiveTab(tab) ==
    /\ tab # activeTab
    /\ Render(selectedTopic, currentCode, tab)
    /\ UNCHANGED << resourceTab, tutorialVars, exerciseVars, callVars >>

handleRunCode(code) == Render(selectedTopic, code, activeTab)

handleLoadExercise(code) == Render(selectedTopic, code, "editor")

handleLoadTutorialCode(code) == Render(selectedTopic, code, "editor")

----------------------------------------------------------------------------
(* CodeEditor *)

\* textarea onChange: setCode(e.target.value)
EditorChange(text) ==
    /\ activeTab = "editor"
    /\ editorCode' = text
    /\ UNCHANGED << indexVars, resourceTab, analyzerVars, debugVars,
                    tutorialVars, exerciseVars, callVars >>

\* The Run button: onRunCode?.(code)
EditorRun ==
    /\ activeTab = "editor"
    /\ handleRunCode(editorCode)
    /\ UNCHANGED << resourceTab, tutorialVars, exerciseVars, callVars >>

----------------------------------------------------------------------------
(* CodeAnalyzer *)

\* The texts that the current code can hold.
CodeTexts ==
    {"", "codeExamples.javascript", "codeExamples.react", "codeExamples.python",
     "js-basics.steps[0].code", "js-basics.steps[1].code", "js-basics.steps[2].code",
     "react-intro.steps[0].code", "react-intro.steps[1].code",
     "exercises[0].starterCode", "exercises[1].starterCode", "exercises[2].starterCode"}
    \cup EditTexts

\* The results array built by the callback of analyzeCode for each text and
\* language of the page, computed once.
analysisResults ==
    [text \in CodeTexts |-> [language \in TopicIds |-> analyzeCode(Chars(text), language)]]

\* A callback without setIsAnalyzing(false).
AnalysisTimerFiresStillAnalyzing ==
    /\ analysisTimers # << >>
    /\ LET timer == Head(analysisTimers)
       IN  /\ analysisTimers' = Tail(analysisTimers)
           /\ IF timer.live
              THEN /\ analysis' = analysisResults[timer.captured.code][timer.captured.language]
                   /\ analysisInput' = timer.captured
                   /\ UNCHANGED isAnalyzing
              ELSE UNCHANGED << analysis, isAnalyzing, analysisInput >>
    /\ UNCHANGED analysisStarted
    /\ UNCHANGED << indexVars, resourceTab, editorVars, debugVars,
                    tutorialVars, exerciseVars, callVars >>

\* A callback that pushes its findings onto those displayed.
AnalysisTimerFiresAccumulating ==
    /\ analysisTimers # << >>
    /\ LET timer == Head(analysisTimers)
       IN  /\ analysisTimers' = Tail(analysisTimers)
           /\ IF timer.live
              THEN /\ analysis' = analysis \o analysisResults[timer.captured.code][timer.captured.language]
                   /\ isAnalyzing' = FALSE
                   /\ analysisInput' = timer.captured
              ELSE UNCHANGED << analysis, isAnalyzing, analysisInput >>
    /\ UNCHANGED analysisStarted
    /\ UNCHANGED << indexVars, resourceTab, editorVars, debugVars,
                    tutorialVars, exerciseVars, callVars >>

\* The callback of the timer started by analyzeCode fires.
AnalysisTimerFires ==
    /\ analysisTimers # << >>
    /\ LET timer == Head(analysisTimers)
       IN  /\ analysisTimers' = Tail(analysisTimers)
           /\ IF timer.live
              THEN /\ analysis' = analysisResults[timer.captured.code][timer.captured.language]
                   /\ isAnalyzing' = FALSE
                   /\ analysisInput' = timer.captured
              ELSE UNCHANGED << analysis, isAnalyzing, analysisInput >>
    /\ UNCHANGED analysisStarted
    /\ UNCHANGED << indexVars, resourceTab, editorVars, debugVars,
                    tutorialVars, exerciseVars, callVars >>

----------------------------------------------------------------------------
(* DebugHelper *)

\* Textarea onChange: setErrorDescription(e.target.value)
setErrorDescription(text) ==
    /\ activeTab = "debug"
    /\ errorDescription' = text
    /\ UNCHANGED << indexVars, resourceTab, editorVars, analyzerVars,
                    suggestions, debugIsAnalyzing, debugTimers,
                    tutorialVars, exerciseVars, callVars >>

\* The "Get Debug Suggestions" button: analyzeError up to setTimeout.
analyzeError ==
    /\ activeTab = "debug"
    /\ ~analyzeErrorDisabled(debugIsAnalyzing, Chars(errorDescription))
    /\ Len(debugTimers) < MaxPending
    /\ debugIsAnalyzing' = TRUE
    /\ debugTimers' = SetTimeout(debugTimers,
                                 [errorDescription |-> errorDescription,
                                  code |-> currentCode])
    /\ UNCHANGED << indexVars, resourceTab, editorVars, analyzerVars,
                    errorDescription, suggestions,
                    tutorialVars, exerciseVars, callVars >>

\* The callback of the timer started by analyzeError fires.
DebugTimerFires ==
    /\ debugTimers # << >>
    /\ LET timer == Head(debugTimers)
       IN  /\ debugTimers' = Tail(debugTimers)
           /\ IF timer.live
              THEN /\ suggestions' = suggestionsFor(Chars(timer.captured.errorDescription),
                                                    Chars(timer.captured.code))
                   /\ debugIsAnalyzing' = FALSE
              ELSE UNCHANGED << suggestions, debugIsAnalyzing >>
    /\ UNCHANGED << indexVars, resourceTab, editorVars, analyzerVars,
                    errorDescription, tutorialVars, exerciseVars, callVars >>

----------------------------------------------------------------------------
(* The tutorials / exercises tabs *)

\* <Tabs defaultValue="tutorials">: the user activates the other tab; the
\* panel that leaves is unmounted and the one that enters starts afresh.
ResourceTabChange(tab) ==
    /\ tab # resourceTab
    /\ resourceTab' = tab
    /\ selectedTutorial' = NoSelection
    /\ currentStep' = 0
    /\ completedSteps' = {}
    /\ currentExercise' = NoSelection
    /\ completedExercises' = << >>
    /\ showSolution' = FALSE
    /\ UNCHANGED << leftVars, callVars >>

----------------------------------------------------------------------------
(* TutorialSystem *)

stepsOf(t) == tutorials[t].steps

\* steps[index]?.code, for a 0-based index: the empty text stands for the
\* undefined of a missing step or of a step without code, both falsy.
stepCodeAt(steps, index) ==
    IF index + 1 \in 1..Len(steps) THEN steps[index + 1].code ELSE ""

\* A handleTutorialSelect without setCurrentStep(0).
handleTutorialSelectKeepingStep(t) ==
    /\ resourceTab = "tutorials"
    /\ selectedTutorial' = t
    /\ IF Truthy(Chars(stepCodeAt(stepsOf(t), 0)))
       THEN handleLoadTutorialCode(stepCodeAt(stepsOf(t), 0))
       ELSE UNCHANGED leftVars
    /\ UNCHANGED << resourceTab, currentStep, completedSteps, exerciseVars, callVars >>

\* handleTutorialSelect of another page, which never loads the step's code.
handleTutorialSelectWithoutLoading(t) ==
    /\ resourceTab = "tutorials"
    /\ selectedTutorial' = t
    /\ currentStep' = 0
    /\ UNCHANGED << leftVars, resourceTab, completedSteps, exerciseVars, callVars >>

handleTutorialSelect(t) ==
    /\ resourceTab = "tutorials"
    /\ selectedTutorial' = t
    /\ currentStep' = 0
    /\ IF Truthy(Chars(stepCodeAt(stepsOf(t), 0)))
       THEN handleLoadTutorialCode(stepCodeAt(stepsOf(t), 0))
       ELSE UNCHANGED leftVars
    /\ UNCHANGED << resourceTab, completedSteps, exerciseVars, callVars >>

\* A tutorial card: the list of cards is rendered while no tutorial is selected.
ClickTutorialCard(t) ==
    /\ selectedTutorial = NoSelection
    /\ handleTutorialSelect(t)

Min(a, b) == IF a < b THEN a ELSE b
Max(a, b) == IF a > b THEN a ELSE b

\* currentStep + 1 and currentStep - 1, without Math.min and Math.max.
newStepOfWithoutClamp(direction, step, stepCount) ==
    IF direction = "next" THEN step + 1 ELSE step - 1

\* The step handleStepNavigation moves to.
newStepOf(direction, step, stepCount) ==
    IF direction = "next" THEN Min(step + 1, stepCount - 1) ELSE Max(step - 1, 0)

\* The disabled attributes of the Previous and Next buttons.
navigationDisabled(direction, step, stepCount) ==
    IF direction = "next" THEN step = stepCount - 1 ELSE step = 0

handleStepNavigation(direction) ==
    /\ resourceTab = "tutorials"
    /\ IF selectedTutorial = NoSelection
       THEN UNCHANGED << leftVars, currentStep >>
       ELSE LET steps   == stepsOf(selectedTutorial)
                newStep == newStepOf(direction, currentStep, Len(steps))
            IN  /\ currentStep' = newStep
                /\ IF Truthy(Chars(stepCodeAt(steps, newStep)))
                   THEN handleLoadTutorialCode(stepCodeAt(steps, newStep))
                   ELSE UNCHANGED leftVars
    /\ UNCHANGED << resourceTab, selectedTutorial, completedSteps, exerciseVars, callVars >>

\* The Previous and Next buttons, rendered while a tutorial is selected.
ClickStepNavigation(direction) ==
    /\ selectedTutorial # NoSelection
    /\ ~navigationDisabled(direction, currentStep, Len(stepsOf(selectedTutorial)))
    /\ handleStepNavigation(direction)

\* A markStepCompleted that removes the identifier of a step already completed.
markStepCompletedToggling ==
    /\ resourceTab = "tutorials"
    /\ IF selectedTutorial = NoSelection
       THEN UNCHANGED completedSteps
       ELSE LET stepId == stepsOf(selectedTutorial)[currentStep + 1].id
            IN  completedSteps' = IF stepId \in completedSteps
                                  THEN completedSteps \ {stepId}
                                  ELSE completedSteps \cup {stepId}
    /\ UNCHANGED << leftVars, resourceTab, selectedTutorial, currentStep,
                    exerciseVars, callVars >>

markStepCompleted ==
    /\ resourceTab = "tutorials"
    /\ IF selectedTutorial = NoSelection
       THEN UNCHANGED completedSteps
       ELSE LET stepId == stepsOf(selectedTutorial)[currentStep + 1].id
            IN  completedSteps' = completedSteps \cup {stepId}
    /\ UNCHANGED << leftVars, resourceTab, selectedTutorial, currentStep,
                    exerciseVars, callVars >>

\* The Mark Complete button of the step, disabled once the step is completed.
ClickMarkStepCompleted ==
    /\ selectedTutorial # NoSelection
    /\ stepsOf(selectedTutorial)[currentStep + 1].id \notin completedSteps
    /\ markStepCompleted

\* A back button that also forgets the completed steps.
DeselectTutorialForgettingCompleted ==
    /\ resourceTab = "tutorials"
    /\ selectedTutorial # NoSelection
    /\ selectedTutorial' = NoSelection
    /\ completedSteps' = {}
    /\ UNCHANGED << leftVars, resourceTab, currentStep, exerciseVars, callVars >>

\* The back button: setSelectedTutorial(null)
DeselectTutorial ==
    /\ resourceTab = "tutorials"
    /\ selectedTutorial # NoSelection
    /\ selectedTutorial' = NoSelection
    /\ UNCHANGED << leftVars, resourceTab, currentStep, completedSteps,
                    exerciseVars, callVars >>

----------------------------------------------------------------------------
(* ExerciseGenerator *)

\* The points credited for each completed exercise.
PointsPerCompleted == 20

\* The points total shown in the header: completedExercises.length * 20
pointsDisplayed == Len(completedExercises) * PointsPerCompleted

\* Math.floor(Math.random() * exercises.length): any index of the catalog.
RandomIndexes == 0..(Len(exercises) - 1)

\* A generateRandomExercise without setShowSolution(false).
generateRandomExerciseKeepingSolution(randomIndex) ==
    /\ resourceTab = "exercises"
    /\ currentExercise' = randomIndex + 1
    /\ handleLoadExercise(exercises[randomIndex + 1].starterCode)
    /\ UNCHANGED << resourceTab, tutorialVars, completedExercises, showSolution, callVars >>

generateRandomExercise(randomIndex) ==
    /\ resourceTab = "exercises"
    /\ currentExercise' = randomIndex + 1
    /\ showSolution' = FALSE
    /\ handleLoadExercise(exercises[randomIndex + 1].starterCode)
    /\ UNCHANGED << resourceTab, tutorialVars, completedExercises, callVars >>

InSeq(x, s) == \E i \in 1..Len(s) : s[i] = x

\* A markCompleted without the test of completedExercises.includes.
markCompletedWithoutIncludesTest ==
    /\ resourceTab = "exercises"
    /\ IF currentExercise # NoSelection
       THEN completedExercises' = Append(completedExercises, exercises[currentExercise].id)
       ELSE UNCHANGED completedExercises
    /\ UNCHANGED << leftVars, resourceTab, tutorialVars, currentExercise,
                    showSolution, callVars >>

markCompleted ==
    /\ resourceTab = "exercises"
    /\ IF /\ currentExercise # NoSelection
          /\ ~InSeq(exercises[currentExercise].id, completedExercises)
       THEN completedExercises' = Append(completedExercises, exercises[currentExercise].id)
       ELSE UNCHANGED completedExercises
    /\ UNCHANGED << leftVars, resourceTab, tutorialVars, currentExercise,
                    showSolution, callVars >>

\* The Mark Complete button, rendered while an exercise is selected and
\* disabled once the exercise is completed.
ClickMarkCompleted ==
    /\ currentExercise # NoSelection
    /\ ~InSeq(exercises[currentExercise].id, completedExercises)
    /\ markCompleted

\* A solution button that also forgets the selected exercise.
ToggleSolutionClosingExercise ==
    /\ resourceTab = "exercises"
    /\ currentExercise # NoSelection
    /\ showSolution' = ~showSolution
    /\ currentExercise' = NoSelection
    /\ UNCHANGED << leftVars, resourceTab, tutorialVars, completedExercises, callVars >>

\* The solution button, rendered while an exercise is selected:
\* setShowSolution(!showSolution)
ToggleSolution ==
    /\ resourceTab = "exercises"
    /\ currentExercise # NoSelection
    /\ showSolution' = ~showSolution
    /\ UNCHANGED << leftVars, resourceTab, tutorialVars, currentExercise,
                    completedExercises, callVars >>

----------------------------------------------------------------------------
(* The learning progress shown by Index *)

\* A lesson list whose next lessons are completed by the completed exercises.
lessonsFollowingExercises ==
    [id \in 1..7 |-> [id |-> id, completed |-> id <= 2 + Len(completedExercises)]]

lessons ==
    << [id |-> 1, completed |-> TRUE],
       [id |-> 2, completed |-> TRUE],
       [id |-> 3, completed |-> FALSE],
       [id |-> 4, completed |-> FALSE],
       [id |-> 5, completed |-> FALSE],
       [id |-> 6, completed |-> FALSE],
       [id |-> 7, completed |-> FALSE] >>

\* lessons.filter(lesson => lesson.completed).length
completedLessons == Cardinality({i \in 1..Len(lessons) : lessons[i].completed})

\* (completedLessons / lessons.length) * 100, kept as the fraction
\* numerator / denominator, which is the value the Progress bar is given.
progressPercentage ==
    [numerator |-> completedLessons * 100, denominator |-> Len(lessons)]

----------------------------------------------------------------------------
(* The page *)

\* The state of the page after its first render.
InitPage ==
    /\ selectedTopic = "javascript"
    /\ currentCode = "codeExamples.javascript"
    /\ activeTab = "editor"
    /\ resourceTab = "tutorials"
    /\ editorCode = "codeExamples.javascript"
    /\ analysis = << >>
    /\ analysisInput = << >>
    /\ analysisStarted = << >>
    /\ isAnalyzing = FALSE
    /\ analysisTimers = << >>
    /\ errorDescription = ""
    /\ suggestions = << >>
    /\ debugIsAnalyzing = FALSE
    /\ debugTimers = << >>
    /\ selectedTutorial = NoSelection
    /\ currentStep = 0
    /\ completedSteps = {}
    /\ currentExercise = NoSelection
    /\ completedExercises = << >>
    /\ showSolution = FALSE
    /\ events = 0

Init ==
    /\ InitPage
    /\ callArgs = [code |-> << >>, language |-> "javascript"]
    /\ callReturned = FALSE
    /\ callResult = << >>

\* One more event of a session of at most MaxEvents events.
CountEvent == events < MaxEvents /\ events' = events + 1

Next ==
    \/ \E topicId \in TopicIds : handleTopicSelect(topicId) /\ CountEvent
    \/ \E tab \in TabIds : setActiveTab(tab) /\ CountEvent
    \/ \E text \in EditTexts : EditorChange(text) /\ CountEvent
    \/ EditorRun /\ CountEvent
    \/ AnalysisTimerFires /\ CountEvent
    \/ \E text \in Descriptions : setErrorDescription(text) /\ CountEvent
    \/ analyzeError /\ CountEvent
    \/ DebugTimerFires /\ CountEvent
    \/ \E tab \in ResourceTabIds : ResourceTabChange(tab) /\ CountEvent
    \/ \E t \in 1..Len(tutorials) : ClickTutorialCard(t) /\ CountEvent
    \/ \E direction \in {"next", "prev"} : ClickStepNavigation(direction) /\ CountEvent
    \/ ClickMarkStepCompleted /\ CountEvent
    \/ DeselectTutorial /\ CountEvent
    \/ \E randomIndex \in RandomIndexes : generateRandomExercise(randomIndex) /\ CountEvent
    \/ ClickMarkCompleted /\ CountEvent
    \/ ToggleSolution /\ CountEvent

Spec == Init /\ [][Next]_vars

\* The panels of the left half alone (Index, CodeEditor, CodeAnalyzer and
\* DebugHelper), for sessions of any length.
PanelNext ==
    \/ \E topicId \in TopicIds : handleTopicSelect(topicId) /\ UNCHANGED events
    \/ \E tab \in TabIds : setActiveTab(tab) /\ UNCHANGED events
    \/ \E text \in EditTexts : EditorChange(text) /\ UNCHANGED events
    \/ EditorRun /\ UNCHANGED events
    \/ AnalysisTimerFires /\ UNCHANGED events
    \/ \E text \in Descriptions : setErrorDescription(text) /\ UNCHANGED events
    \/ analyzeError /\ UNCHANGED events
    \/ DebugTimerFires /\ UNCHANGED events

PanelSpec == Init /\ [][PanelNext]_vars

\* The panels when every timer started by analyzeCode fires in the end: the
\* browser runs the callback of a setTimeout once its delay has passed.
PanelLiveSpec == PanelSpec /\ WF_vars(AnalysisTimerFires /\ UNCHANGED events)

\* The handlers of TutorialSystem and ExerciseGenerator called in any order
\* and in any state of their component, whatever buttons are disabled, for
\* sessions of any length.
HandlerNext ==
    \/ \E tab \in ResourceTabIds : ResourceTabChange(tab) /\ UNCHANGED events
    \/ \E t \in 1..Len(tutorials) : handleTutorialSelect(t) /\ UNCHANGED events
    \/ \E direction \in {"next", "prev"} : handleStepNavigation(direction) /\ UNCHANGED events
    \/ markStepCompleted /\ UNCHANGED events
    \/ DeselectTutorial /\ UNCHANGED events
    \/ \E randomIndex \in RandomIndexes : generateRandomExercise(randomIndex) /\ UNCHANGED events
    \/ markCompleted /\ UNCHANGED events
    \/ ToggleSolution /\ UNCHANGED events

HandlerSpec == Init /\ [][HandlerNext]_vars


----------------------------------------------------------------------------
(* Direct calls of the callback of analyzeCode, on texts built from the    *)
(* substrings the rules look for and from runs of one character.           *)

Snippets == << PatVar, PatConsoleLog, PatFunction, PatArrow, PatFor, PatForEach >>

\* The snippets chosen by picks, one per line, in the order of Snippets.
RECURSIVE SnippetLines(_, _)
SnippetLines(picks, k) ==
    IF k > Len(Snippets) THEN << >>
    ELSE (IF k \in picks THEN Snippets[k] \o << "\n" >> ELSE << >>)
         \o SnippetLines(picks, k + 1)

AnalyzeTexts ==
    {Repeat("a", n) : n \in 0..MaxRun}
    \cup {SnippetLines(picks, 1) : picks \in SUBSET (1..Len(Snippets))}
    \cup {SnippetLines(picks, 1) \o Repeat("a", MaxRun) :
             picks \in SUBSET (1..Len(Snippets))}
    \cup {typedVarLog, typedBlank}

InitCall ==
    /\ InitPage
    /\ callArgs \in [code : AnalyzeTexts, language : TopicIds]
    /\ callReturned = FALSE
    /\ callResult = << >>

CallAnalyzeCode ==
    /\ ~callReturned
    /\ callResult' = analyzeCode(callArgs.code, callArgs.language)
    /\ callReturned' = TRUE
    /\ UNCHANGED << leftVars, resourceTab, tutorialVars, exerciseVars, callArgs, events >>

AnalyzeNext == CallAnalyzeCode

AnalyzeSpec == InitCall /\ [][AnalyzeNext]_vars

----------------------------------------------------------------------------
(* Properties of the analysis rules, checked under AnalyzeSpec *)

\* The fixed rule list, in the order of evaluation.
RuleList == << varWarning, consoleLogInfo, extractFunctionsSuggestion,
               longLineWarning, functionalArraySuggestion >>

\* p is a substring of s.
Occurs(p, s) == \E i \in 1..(Len(s) - Len(p) + 1) : SubSeq(s, i, i + Len(p) - 1) = p

\* Some line of s has more than n characters: n + 1 characters in a row
\* without a newline.
HasLineLongerThan(s, n) ==
    \E i \in 1..(Len(s) - n) : \A j \in i..(i + n) : s[j] # "\n"

\* The predicate of the k-th rule, on the input alone.
RuleHolds(k, code, language) ==
    CASE k = 1 -> Occurs(PatVar, code)
      [] k = 2 -> Occurs(PatConsoleLog, code) /\ language = "javascript"
      [] k = 3 -> ~Occurs(PatFunction, code) /\ ~Occurs(PatArrow, code) /\ Len(code) > 50
      [] k = 4 -> HasLineLongerThan(code, 120)
      [] k = 5 -> Occurs(PatFor, code) /\ Occurs(PatForEach, code)

\* The sub-sequence of the rule list made of the rules whose predicate holds.
MatchedRules(code, language) ==
    LET Holds(k) == RuleHolds(k, code, language)
        matched  == SelectSeq(<< 1, 2, 3, 4, 5 >>, Holds)
    IN  [i \in 1..Len(matched) |-> RuleList[matched[i]]]

\* C1: the findings delivered for a code and a language are exactly the rules
\* of the fixed list whose predicate holds on that input, in the order of the
\* list, each once; whether a rule fires depends on the input alone.
C1_FindingsAreTheMatchedRulesInOrder ==
    callReturned => callResult = MatchedRules(callArgs.code, callArgs.language)

\* All five rules fire on one input.
C1_Witness_AllFiveRulesFire ==
    callReturned /\ callResult = RuleList

\* The positions of the var-warning among the findings.
VarWarningPositions(findings) ==
    {i \in 1..Len(findings) :
        /\ findings[i].message = varWarning.message
        /\ findings[i].type = "warning"
        /\ findings[i].severity = "medium"}

\* C2: for a code that contains "var ", whatever the language and whatever
\* else the code contains, the findings hold the var-warning (a warning of
\* medium severity) exactly once.
C2_VarWarningExactlyOnce ==
    (callReturned /\ Occurs(PatVar, callArgs.code))
        => Cardinality(VarWarningPositions(callResult)) = 1

\* A code with "var " and other matches, analysed as something else than
\* javascript, has returned its findings.
C2_Witness_VarAmongOtherFindings ==
    /\ callReturned
    /\ Occurs(PatVar, callArgs.code)
    /\ callArgs.language # "javascript"
    /\ Len(callResult) >= 3

\* C3: "var x = 1;\nconsole.log(x);" analysed as javascript gives exactly the
\* var-warning (medium) and then the console.log-info (low); analysed as any
\* other language it gives no console.log-info.
C3_VarAndConsoleLogScenario ==
    (callReturned /\ callArgs.code = typedVarLog)
        => IF callArgs.language = "javascript"
           THEN /\ Len(callResult) = 2
                /\ callResult[1] = varWarning /\ callResult[1].severity = "medium"
                /\ callResult[2] = consoleLogInfo /\ callResult[2].severity = "low"
           ELSE \A i \in 1..Len(callResult) : callResult[i] # consoleLogInfo

\* The scenario's code has been analysed as javascript, and as python.
C3_Witness_ScenarioAnalysed ==
    /\ callReturned
    /\ callArgs.code = typedVarLog
    /\ callArgs.language \in {"javascript", "python"}
    /\ Len(callResult) = IF callArgs.language = "javascript" THEN 2 ELSE 1

\* The finding is among the findings.
HasFinding(findings, finding) == \E i \in 1..Len(findings) : findings[i] = finding

\* C21: the extract-functions suggestion is among the findings exactly when
\* the code contains neither "function" nor "=>" and is longer than 50
\* characters: never for a code of 50 characters or fewer, always for a code
\* of 51 characters or more without either substring.
C21_ExtractFunctionsBeyondFiftyCharacters ==
    callReturned =>
       /\ HasFinding(callResult, RuleList[3])
             <=> (/\ ~Occurs(PatFunction, callArgs.code)
                  /\ ~Occurs(PatArrow, callArgs.code)
                  /\ Len(callArgs.code) >= 51)
       /\ Len(callArgs.code) <= 50 => ~HasFinding(callResult, RuleList[3])

\* A code of exactly 51 characters has received the suggestion.
C21_Witness_FiftyOneCharacters ==
    /\ callReturned
    /\ Len(callArgs.code) = 51
    /\ callResult = << RuleList[3] >>

\* C30: the functional-array suggestion is among the findings exactly when
\* the code contains "forEach": a code with "for" and without "forEach" never
\* receives it, and a code with "forEach" receives it whether or not "for"
\* occurs elsewhere in it.
C30_FunctionalArrayExactlyOnForEach ==
    callReturned =>
       (HasFinding(callResult, RuleList[5]) <=> Occurs(PatForEach, callArgs.code))

\* A code in which "for" occurs only inside "forEach" has received the
\* suggestion.
C30_Witness_ForEachWithoutSeparateFor ==
    /\ callReturned
    /\ callArgs.code = PatForEach \o << "\n" >>
    /\ HasFinding(callResult, RuleList[5])

----------------------------------------------------------------------------
(* Properties of the panels, checked under PanelSpec *)

\* The findings the rule list gives for each text and language of the page.
FindingsOf ==
    [text \in CodeTexts |->
        [language \in TopicIds |-> MatchedRules(Chars(text), language)]]

\* A text that is blank after trimming.
IsBlank(text) == Trim(Chars(text)) = << >>

\* C4: whenever the code given to the mounted analysis panel becomes blank
\* after trimming, no analysis is started for it and the panel's result set
\* is empty afterwards, whatever it displayed before.
C4_BlankCodeEmptiesTheResults ==
    [][(/\ activeTab = "analysis" /\ activeTab' = "analysis"
        /\ currentCode' # currentCode
        /\ IsBlank(currentCode'))
          => (analysisTimers' = analysisTimers /\ analysis' = << >>)]_vars

\* A step that queues a new analysis timer behind those already waiting.
StartsAnalysisTimer ==
    /\ Len(analysisTimers') = Len(analysisTimers) + 1
    /\ analysisTimers'[Len(analysisTimers')].live

\* A step in which the oldest analysis timer fires.
OldestAnalysisTimerFires ==
    /\ analysisTimers # << >>
    /\ analysisTimers' = Tail(analysisTimers)

\* C5: an analysis timer captures the code and language current when it is
\* started; no step removes a waiting timer except its own firing, in the
\* order of starting, whatever happens to the code or language meanwhile; and
\* a timer of the mounted panel, when it fires, replaces the displayed
\* findings by the analysis of what it captured.
C5_TimersAreNeverCancelledAndDeliverTheirCapturedInput ==
    [][/\ StartsAnalysisTimer =>
            analysisTimers'[Len(analysisTimers')].captured
                = [code |-> currentCode', language |-> selectedTopic']
       /\ ~OldestAnalysisTimerFires =>
            /\ Len(analysisTimers') >= Len(analysisTimers)
            /\ \A i \in 1..Len(analysisTimers) :
                  \/ analysisTimers'[i] = analysisTimers[i]
                  \/ activeTab' # activeTab /\ ~analysisTimers'[i].live
       /\ (OldestAnalysisTimerFires /\ Head(analysisTimers).live) =>
            /\ analysis' = FindingsOf[Head(analysisTimers).captured.code]
                                     [Head(analysisTimers).captured.language]
            /\ ~isAnalyzing'
      ]_vars

\* The panel displays findings that are not the analysis of its current,
\* non-blank code, while the timer started for that code is still waiting.
C5_Witness_StaleFindingsDisplayed ==
    /\ activeTab = "analysis"
    /\ ~isAnalyzing
    /\ ~IsBlank(currentCode)
    /\ analysisTimers # << >>
    /\ Head(analysisTimers).live
    /\ Head(analysisTimers).captured = [code |-> currentCode, language |-> selectedTopic]
    /\ analysis # FindingsOf[currentCode][selectedTopic]

\* A keystroke in the editor.
Keystroke == \E text \in EditTexts : EditorChange(text)

\* C6: every edit of the editor's text updates the current code, so
\* that after it the code read by the panels equals the text shown in the
\* editor.
C6_EveryEditUpdatesTheCurrentCode ==
    [][Keystroke => currentCode' = editorCode']_vars

\* A step in which the oldest debug timer fires for the mounted panel.
LiveDebugTimerFires ==
    /\ debugTimers # << >>
    /\ Head(debugTimers).live
    /\ debugTimers' = Tail(debugTimers)

\* The identifiers of the catalog entries.
CatalogIds == {commonIssues[i].id : i \in 1..Len(commonIssues)}

\* C9: a completed debug-suggestion request delivers a non-empty sequence of
\* catalog entries, whatever description and code it captured; when no entry
\* passes the filter on them, it delivers the whole catalog.
C9_SuggestionsNeverEmpty ==
    [][LiveDebugTimerFires =>
          LET captured == Head(debugTimers).captured
              Passes(issue) == IssueIsRelevant(issue, Chars(captured.errorDescription),
                                               Chars(captured.code))
          IN  /\ Len(suggestions') > 0
              /\ \A i \in 1..Len(suggestions') : suggestions'[i].id \in CatalogIds
              /\ (\A k \in 1..Len(commonIssues) : ~Passes(commonIssues[k]))
                    => suggestions' = commonIssues
      ]_vars

\* A request has completed for a description and a code on which no entry
\* passes the filter, and the whole catalog is displayed.
C9_Witness_FallbackDelivered ==
    /\ activeTab = "debug"
    /\ ~debugIsAnalyzing
    /\ debugTimers = << >>
    /\ errorDescription = "typed: it crashes"
    /\ relevantSuggestions(Chars(errorDescription), Chars(currentCode)) = << >>
    /\ suggestions = commonIssues

\* A step that queues a new debug timer.
StartsDebugTimer == Len(debugTimers') > Len(debugTimers)

\* C10: a debug-suggestion request is started only by the button: the step
\* that starts it is the button's action, it changes neither the code nor the
\* description, and the description is not blank after trimming.
C10_RequestOnlyByButtonAndNeverBlank ==
    [][StartsDebugTimer =>
          /\ analyzeError
          /\ currentCode' = currentCode
          /\ errorDescription' = errorDescription
          /\ ~IsBlank(errorDescription)
          /\ debugTimers'[Len(debugTimers')].captured.errorDescription = errorDescription
      ]_vars

\* A request is waiting for its timer.
C10_Witness_RequestPending ==
    /\ activeTab = "debug"
    /\ debugIsAnalyzing
    /\ debugTimers # << >>
    /\ debugTimers[Len(debugTimers)].live
    /\ ~IsBlank(debugTimers[Len(debugTimers)].captured.errorDescription)

----------------------------------------------------------------------------
(* Properties of the whole page, checked under Spec *)

\* A selection in the resources that pushes a snippet to the Index page.
PushesSnippet ==
    \/ \E t \in 1..Len(tutorials) : handleTutorialSelect(t)
    \/ \E direction \in {"prev", "next"} : handleStepNavigation(direction)
    \/ \E randomIndex \in RandomIndexes : generateRandomExercise(randomIndex)

\* C7: after a tutorial is selected, a tutorial step is navigated to, or a
\* random exercise is picked, the editor is shown and its text equals the
\* snippet pushed to the Index page, whichever tab was active before.
C7_EditorShowsThePushedSnippet ==
    [][PushesSnippet => (activeTab' = "editor" /\ editorCode' = currentCode')]_vars

\* C8 as stated: the current code changes only through a keystroke in the
\* editor, a tutorial selection or step navigation, or an exercise pick.
C8_CodeChangesOnlyByKeystrokeTutorialOrExercise ==
    [][currentCode' # currentCode => (Keystroke \/ PushesSnippet)]_vars

\* C8 amended: the current code changes only through the editor's Run button,
\* the selection of a topic, a tutorial selection or step navigation, or an
\* exercise pick; a keystroke, a switch of tab, marking a step or an exercise
\* complete, toggling the solution and requesting debug suggestions leave it
\* unchanged.
C8_CodeChangesOnlyByRunTopicTutorialOrExercise ==
    [][/\ currentCode' # currentCode =>
            \/ EditorRun
            \/ \E topicId \in TopicIds : handleTopicSelect(topicId)
            \/ PushesSnippet
       /\ (\/ Keystroke
           \/ \E tab \in TabIds : setActiveTab(tab)
           \/ markStepCompleted
           \/ markCompleted
           \/ ToggleSolution
           \/ analyzeError) => currentCode' = currentCode
      ]_vars

\* The current code is a typed text while the debug panel waits for its
\* suggestions: Run has written the code, and the switch of tab, the typing
\* of a description and the request have kept it.
C8_Witness_TypedCodeKeptByOtherOperations ==
    /\ currentCode = "typed: var and console.log"
    /\ activeTab = "debug"
    /\ debugIsAnalyzing

----------------------------------------------------------------------------
(* Properties of the tutorial and exercise handlers, checked under          *)
(* HandlerSpec                                                              *)

\* The index of the last step of the selected tutorial.
LastStepIndex == Len(tutorials[selectedTutorial].steps) - 1

\* C11: with a tutorial selected, handleStepNavigation('next') at the last
\* step and handleStepNavigation('prev') at step 0 leave the step index
\* unchanged; every other navigation moves it by exactly one in the requested
\* direction.
C11_NavigationClampsAndMovesByOne ==
    [][\A direction \in {"next", "prev"} :
          (handleStepNavigation(direction) /\ selectedTutorial # NoSelection) =>
             currentStep' =
                IF direction = "next"
                THEN (IF currentStep = LastStepIndex THEN currentStep ELSE currentStep + 1)
                ELSE (IF currentStep = 0 THEN currentStep ELSE currentStep - 1)
      ]_vars

\* The walker stands at the last step of the three-step tutorial, where a
\* further 'next' is clamped, having moved there one step at a time.
C11_Witness_AtLastStep ==
    /\ selectedTutorial = 1
    /\ currentStep = 2
    /\ currentCode = "js-basics.steps[2].code"

\* C12: handleTutorialSelect puts the walker at step 0 of the tutorial it is
\* given, whatever tutorial and step were current before; when step 0 has
\* code, that code becomes the current code of the page, and otherwise the
\* current code is unchanged.
C12_SelectStartsAtStepZeroAndLoadsItsCode ==
    [][\A t \in 1..Len(tutorials) :
          handleTutorialSelect(t) =>
             /\ selectedTutorial' = t
             /\ currentStep' = 0
             /\ IF Len(tutorials[t].steps) > 0 /\ Chars(tutorials[t].steps[1].code) # << >>
                THEN currentCode' = tutorials[t].steps[1].code
                ELSE currentCode' = currentCode
      ]_vars

\* The second tutorial is at step 0 with its code loaded, while the completed
\* step "3" tells that the first tutorial had been walked to its last step.
C12_Witness_SelectedAfterAnotherTutorial ==
    /\ selectedTutorial = 2
    /\ currentStep = 0
    /\ currentCode = "react-intro.steps[0].code"
    /\ "3" \in completedSteps

\* The identifier of the current step of the selected tutorial.
CurrentStepId == tutorials[selectedTutorial].steps[currentStep + 1].id

\* C13: with a tutorial selected, markStepCompleted makes the completed set
\* the union of what it was and the current step's identifier, so that on a
\* step already completed the set stays as it is; it changes neither the
\* selected tutorial nor the step index.
C13_MarkStepCompletedAddsOnceAndKeepsPosition ==
    [][(markStepCompleted /\ selectedTutorial # NoSelection) =>
          /\ completedSteps' = completedSteps \cup {CurrentStepId}
          /\ CurrentStepId \in completedSteps => completedSteps' = completedSteps
          /\ selectedTutorial' = selectedTutorial
          /\ currentStep' = currentStep
      ]_vars

\* The current step is completed, so that a further markStepCompleted is the
\* second one on this step, and another step is completed as well.
C13_Witness_CurrentStepCompleted ==
    /\ selectedTutorial # NoSelection
    /\ CurrentStepId \in completedSteps
    /\ completedSteps # {CurrentStepId}

\* C14: the back button returns the walker to the state without selected
\* tutorial and leaves the completed set unchanged, and so do
\* handleTutorialSelect and handleStepNavigation leave the set unchanged.
C14_CompletedStepsSurviveDeselectSelectAndNavigation ==
    [][/\ DeselectTutorial =>
            (selectedTutorial' = NoSelection /\ completedSteps' = completedSteps)
       /\ (\/ \E t \in 1..Len(tutorials) : handleTutorialSelect(t)
           \/ \E direction \in {"next", "prev"} : handleStepNavigation(direction))
            => completedSteps' = completedSteps
      ]_vars

\* No tutorial is selected after one was walked beyond its first step, and the
\* steps completed in it are still completed.
C14_Witness_DeselectedWithCompletedSteps ==
    /\ resourceTab = "tutorials"
    /\ selectedTutorial = NoSelection
    /\ currentStep > 0
    /\ completedSteps # {}

\* No element occurs twice in the sequence.
NoDuplicates(s) == \A i, j \in 1..Len(s) : s[i] = s[j] => i = j

\* C15: the completed exercises never hold an identifier twice; markCompleted
\* for an exercise already completed, or without selected exercise, leaves
\* them unchanged, and otherwise appends the identifier of the exercise.
C15_MarkCompletedIsGuardedAndIdempotent ==
    [][/\ NoDuplicates(completedExercises')
       /\ markCompleted =>
            completedExercises' =
               IF \/ currentExercise = NoSelection
                  \/ \E i \in 1..Len(completedExercises) :
                        completedExercises[i] = exercises[currentExercise].id
               THEN completedExercises
               ELSE Append(completedExercises, exercises[currentExercise].id)
      ]_vars

\* All three exercises are completed and one of them is selected, so that a
\* further markCompleted is a repeated one.
C15_Witness_AllExercisesCompleted ==
    /\ Len(completedExercises) = Len(exercises)
    /\ currentExercise # NoSelection

\* C16: generateRandomExercise selects an exercise whose identifier is "1",
\* "2" or "3", hides the solution, makes the exercise's starter code the
\* current code of the page and leaves the completed exercises unchanged.
C16_RandomExerciseIsFromCatalogAndHidesSolution ==
    [][\A randomIndex \in RandomIndexes :
          generateRandomExercise(randomIndex) =>
             /\ currentExercise' \in 1..Len(exercises)
             /\ exercises[currentExercise'].id \in {"1", "2", "3"}
             /\ showSolution' = FALSE
             /\ currentCode' = exercises[currentExercise'].starterCode
             /\ completedExercises' = completedExercises
      ]_vars

\* An exercise is selected with its solution hidden and its starter code
\* loaded, after another exercise was completed.
C16_Witness_PickedAfterCompletingAnother ==
    /\ currentExercise = 2
    /\ ~showSolution
    /\ currentCode = "exercises[1].starterCode"
    /\ completedExercises = << "1" >>

\* C17: the solution button negates the visibility of the solution, so that
\* two presses restore it, and changes neither the completed exercises, nor
\* the selected exercise, nor the current code.
C17_ToggleSolutionOnlyFlipsVisibility ==
    [][ToggleSolution =>
          /\ showSolution' = ~showSolution
          /\ ~showSolution' = showSolution
          /\ completedExercises' = completedExercises
          /\ currentExercise' = currentExercise
          /\ currentCode' = currentCode
      ]_vars

\* The solution of a completed exercise is shown.
C17_Witness_SolutionShown ==
    /\ showSolution
    /\ currentExercise # NoSelection
    /\ completedExercises # << >>

----------------------------------------------------------------------------
(* Further properties of the panels, checked under PanelSpec *)

\* C18: two analysis runs with identical code and language deliver identical
\* findings in identical order: when a timer of the mounted panel fires with
\* the code and language of the run that delivered the displayed findings, it
\* delivers those same findings, whatever other timers are waiting; and what a
\* run delivers is determined by its code and language, whatever findings
\* were displayed before it.
C18_SameInputSameFindings ==
    [][(OldestAnalysisTimerFires /\ Head(analysisTimers).live) =>
          /\ analysisInput = Head(analysisTimers).captured => analysis' = analysis
          /\ \A other \in 1..Len(analysisTimers) :
                (/\ analysisTimers[other].live
                 /\ analysisTimers[other].captured = Head(analysisTimers).captured)
                   => analysis' = FindingsOf[analysisTimers[other].captured.code]
                                            [analysisTimers[other].captured.language]
      ]_vars

\* The displayed findings, not empty, were delivered by a run for the current
\* code and language, and a second run for the same code and language is
\* waiting.
C18_Witness_SecondRunForTheSameInput ==
    /\ activeTab = "analysis"
    /\ analysis # << >>
    /\ analysisInput = [code |-> currentCode, language |-> selectedTopic]
    /\ analysisTimers # << >>
    /\ Head(analysisTimers).live
    /\ Head(analysisTimers).captured = analysisInput

\* The mounted analysis panel is in the analyzing state.
PanelAnalyzing == activeTab = "analysis" /\ isAnalyzing

\* The mounted analysis panel has left the analyzing state and displays the
\* findings delivered by one of its runs.
PanelDisplaysResult ==
    /\ activeTab = "analysis"
    /\ ~isAnalyzing
    /\ analysisInput # << >>
    /\ analysis = FindingsOf[analysisInput.code][analysisInput.language]

\* C19 as stated: when every started timer fires in the end, an analysis panel
\* in the analyzing state eventually leaves it and displays a result set.
C19_AnalysisEventuallyDisplayed == PanelAnalyzing ~> PanelDisplaysResult

\* C19 amended: when every started timer fires in the end, an analysis panel
\* in the analyzing state eventually leaves it and displays a result set,
\* unless a switch to another tab closes the panel before.
C19_AnalysisEventuallyDisplayedUnlessPanelClosed ==
    PanelAnalyzing ~> (PanelDisplaysResult \/ activeTab # "analysis")

\* The panel displays the findings of the run for its current code and no
\* timer is waiting.
C19_Witness_ResultDisplayed ==
    /\ PanelDisplaysResult
    /\ analysis # << >>
    /\ analysisInput = [code |-> currentCode, language |-> selectedTopic]
    /\ analysisTimers = << >>

----------------------------------------------------------------------------
(* Further properties of the whole page, checked under Spec *)

\* C20: the progress percentage is computed from the lesson list alone, two
\* completed lessons of seven, and no step of the page changes it: marking
\* tutorial steps or exercises complete, selecting a topic and editing code
\* leave it as it was.
C20_ProgressPercentageNeverChanges ==
    [][/\ progressPercentage = [numerator |-> 200, denominator |-> 7]
       /\ progressPercentage' = progressPercentage
       /\ completedLessons' = completedLessons
      ]_vars

\* A topic was selected, a text typed into the editor and a tutorial step
\* marked complete.
C20_Witness_StepCompletedAfterTopicAndEdit ==
    /\ selectedTopic = "react"
    /\ editorCode = "typed: var and console.log"
    /\ completedSteps # {}

----------------------------------------------------------------------------
(* Properties of the analysis timers, checked under PanelSpec *)

\* A timer of the mounted analysis panel is waiting.
LiveAnalysisTimerWaiting ==
    \E i \in 1..Len(analysisTimers) : analysisTimers[i].live

\* C22: in the mounted analysis panel, once every timer it started has fired,
\* the displayed findings are the analysis of the code and language of the
\* most recent run it started, which are the current code and language
\* whenever the current code is not blank.
C22_SettledFindingsAreThoseOfTheLastRun ==
    (activeTab = "analysis" /\ ~LiveAnalysisTimerWaiting) =>
       /\ ~IsBlank(currentCode) =>
             analysisStarted = [code |-> currentCode, language |-> selectedTopic]
       /\ analysisStarted # << >> =>
             /\ analysis = FindingsOf[analysisStarted.code][analysisStarted.language]
             /\ ~isAnalyzing

\* The panel has settled on the findings of the python example, its last run,
\* after the code became blank.
C22_Witness_SettledOnEarlierRun ==
    /\ activeTab = "analysis"
    /\ analysisTimers = << >>
    /\ currentCode = ""
    /\ analysisStarted = [code |-> "codeExamples.python", language |-> "python"]
    /\ analysis # << >>

\* C23: whenever a timer of the mounted analysis panel is waiting, the panel
\* is in the analyzing state.
C23_AnalyzingWhileATimerIsWaiting ==
    (activeTab = "analysis" /\ LiveAnalysisTimerWaiting) => isAnalyzing

----------------------------------------------------------------------------
(* Further properties of the debug panel, checked under PanelSpec *)

\* C24: the filter of a debug request keeps every catalog entry or none,
\* whatever the description and the code, so that a completed request
\* delivers the four catalog entries "1", "2", "3", "4" in catalog order.
C24_EveryRequestDeliversTheWholeCatalog ==
    [][LiveDebugTimerFires =>
          LET captured == Head(debugTimers).captured
              Kept(k)  == IssueIsRelevant(commonIssues[k], Chars(captured.errorDescription),
                                          Chars(captured.code))
          IN  /\ \A k \in 2..Len(commonIssues) : Kept(k) <=> Kept(1)
              /\ [k \in 1..Len(suggestions') |-> suggestions'[k].id] = << "1", "2", "3", "4" >>
              /\ suggestions' = commonIssues
      ]_vars

\* A request has completed for a description on which the filter keeps the
\* entries, and the whole catalog is displayed.
C24_Witness_FilterKeepsEveryEntry ==
    /\ activeTab = "debug"
    /\ ~debugIsAnalyzing
    /\ debugTimers = << >>
    /\ errorDescription = "typed: NULL ref"
    /\ Len(relevantSuggestions(Chars(errorDescription), Chars(currentCode))) = 4
    /\ suggestions = commonIssues

\* The timers of the mounted debug panel that are waiting.
LiveDebugTimers == {i \in 1..Len(debugTimers) : debugTimers[i].live}

\* C25 as stated: at most one debug timer is waiting at any time, and the
\* suggestion list, once not empty, never becomes empty again.
C25_OneTimerAndSuggestionsNeverEmptied ==
    [][/\ Len(debugTimers) <= 1
       /\ Len(debugTimers') <= 1
       /\ suggestions # << >> => suggestions' # << >>
      ]_vars

\* C25 amended: at most one timer of the mounted debug panel is waiting at
\* any time, a request is started only while none is waiting, and the
\* suggestion list, once not empty, stays not empty as long as the panel
\* stays open.
C25_OneTimerPerOpenPanel ==
    [][/\ Cardinality(LiveDebugTimers) <= 1
       /\ Cardinality(LiveDebugTimers') <= 1
       /\ StartsDebugTimer => (LiveDebugTimers = {} /\ ~debugIsAnalyzing)
       /\ (activeTab = "debug" /\ activeTab' = "debug" /\ suggestions # << >>)
             => suggestions' # << >>
      ]_vars

\* A request of the open panel is waiting behind the timer of a panel closed
\* before its request completed.
C25_Witness_RequestBehindTimerOfClosedPanel ==
    /\ activeTab = "debug"
    /\ Len(debugTimers) = 2
    /\ ~debugTimers[1].live
    /\ debugTimers[2].live
    /\ debugIsAnalyzing

----------------------------------------------------------------------------
(* Further properties of the tutorial and exercise handlers, checked under *)
(* HandlerSpec                                                              *)

\* C26: while a tutorial is selected, the step index is at least 0 and less
\* than the number of steps of that tutorial, so that the current step
\* exists.
C26_StepIndexWithinSelectedTutorial ==
    selectedTutorial # NoSelection =>
       /\ selectedTutorial \in 1..Len(tutorials)
       /\ currentStep >= 0
       /\ currentStep < Len(tutorials[selectedTutorial].steps)

\* The two-step tutorial stands at its last step after the three-step tutorial
\* was walked to its last step and left.
C26_Witness_ShorterTutorialAfterLongerOne ==
    /\ selectedTutorial = 2
    /\ currentStep = 1
    /\ "3" \in completedSteps

\* The step of the tutorial is shown as completed:
\* completedSteps.has(currentStepData.id) when it is the current step.
ShownCompleted(t, index) == tutorials[t].steps[index].id \in completedSteps

\* C27: markStepCompleted with one tutorial selected changes for no step of
\* another tutorial whether it is shown as completed.
C27_MarkingNeverCompletesStepsOfAnotherTutorial ==
    [][(markStepCompleted /\ selectedTutorial # NoSelection) =>
          \A t \in 1..Len(tutorials) : \A index \in 1..Len(tutorials[t].steps) :
             t # selectedTutorial => (ShownCompleted(t, index)' <=> ShownCompleted(t, index))
      ]_vars

\* The sum of the points of the exercises whose identifiers are in the
\* sequence.
RECURSIVE PointsOf(_)
PointsOf(ids) ==
    IF ids = << >> THEN 0
    ELSE LET exercise == CHOOSE e \in {exercises[k] : k \in 1..Len(exercises)} :
                            e.id = Head(ids)
         IN  exercise.points + PointsOf(Tail(ids))

\* C29: the points total displayed by the exercise panel is the sum of the
\* points of the completed exercises.
C29_DisplayedPointsAreTheSumOfPoints ==
    resourceTab = "exercises" => pointsDisplayed = PointsOf(completedExercises)

----------------------------------------------------------------------------
(* The selected topic of the page, checked under Spec *)

\* The topics that have an entry in codeExamples.
TopicsWithExample == {"javascript", "react", "python"}

\* C28: the selected topic is never null: it is a topic identifier before and
\* after every step of the page, and handleTopicSelect sets it to the topic
\* selected and sets the current code to the example of that topic, or to the
\* empty text when the topic has no example.
C28_SelectedTopicIsAlwaysATopic ==
    /\ selectedTopic = "javascript"
    /\ [][/\ selectedTopic \in TopicIds
          /\ selectedTopic' \in TopicIds
          /\ \A topicId \in TopicIds :
                handleTopicSelect(topicId) =>
                   /\ selectedTopic' = topicId
                   /\ currentCode' = IF topicId \in TopicsWithExample
                                     THEN "codeExamples." \o topicId
                                     ELSE ""
         ]_vars

\* A topic without example was selected and the current code is empty.
C28_Witness_TopicWithoutExample ==
    /\ selectedTopic = "mobile"
    /\ currentCode = ""
    /\ activeTab = "analysis"
====
